---- MODULE Spec2Model ----
(***************************************************************************)
(* Hybrid search fusion and reranking (server/utils/reranker): the         *)
(* RerankerService singleton, the three reranker providers, the            *)
(* HybridReranker fusion and the HybridSearchManager orchestrator.         *)
(*                                                                         *)
(* Strings are sequences of one-character strings.  Scores, weights and    *)
(* the diversity factor are exact fixed-point numbers: One stands for 1.0, *)
(* a weighted score is in units of 1/One^2 and a combinedScore in units of *)
(* 1/One^3 (Full stands for 1.0 there).                                    *)
(***************************************************************************)
EXTENDS Integers, Sequences, FiniteSets, TLC

\* ------------------------------------------------------------------------
\* Fixed-point units
\* ------------------------------------------------------------------------
One == 12 * 10
Sq == One * One
Full == One * One * One

Min(a, b) == IF a < b THEN a ELSE b
Max(a, b) == IF a > b THEN a ELSE b

\* ------------------------------------------------------------------------
\* Strings
\* ------------------------------------------------------------------------
UpperSeq == << "A","B","C","D","E","F","G","H","I","J","K","L","M",
               "N","O","P","Q","R","S","T","U","V","W","X","Y","Z" >>
LowerSeq == << "a","b","c","d","e","f","g","h","i","j","k","l","m",
               "n","o","p","q","r","s","t","u","v","w","x","y","z" >>
DigitSeq == << "0","1","2","3","4","5","6","7","8","9" >>

InSeq(c, s) == \E i \in 1..Len(s) : s[i] = c
Range(s) == { s[i] : i \in 1..Len(s) }

UpperChars == Range(UpperSeq)
DigitChars == Range(DigitSeq)
WordChars == UpperChars \cup Range(LowerSeq) \cup DigitChars \cup { "_" }

\* String.prototype.toLowerCase, one character
LowerOfUpper ==
  [ c \in UpperChars |-> LowerSeq[CHOOSE i \in 1..Len(UpperSeq) : UpperSeq[i] = c] ]
LowerChar(c) == IF c \in UpperChars THEN LowerOfUpper[c] ELSE c

toLowerCase(s) == [ i \in 1..Len(s) |-> LowerChar(s[i]) ]

\* the regex classes \w and \s
IsWordChar(c) == c \in WordChars
IsSpace(c) == c = " "

\* String.prototype.includes
includes(s, sub) ==
  \E i \in 0..(Len(s) - Len(sub)) : SubSeq(s, i + 1, i + Len(sub)) = sub

\* Array.prototype.join(' ') over strings
RECURSIVE JoinSpace(_)
JoinSpace(parts) ==
  IF Len(parts) = 0 THEN << >>
  ELSE IF Len(parts) = 1 THEN parts[1]
  ELSE parts[1] \o << " " >> \o JoinSpace(Tail(parts))

\* text.split(/\s+/) after .replace(/[^\w\s]/g, ' '): the maximal runs of
\* word characters (split's empty strings are dropped by the length filter)
RECURSIVE SplitWords(_, _)
SplitWords(s, cur) ==
  IF Len(s) = 0 THEN (IF Len(cur) = 0 THEN << >> ELSE << cur >>)
  ELSE IF IsWordChar(Head(s)) THEN SplitWords(Tail(s), Append(cur, Head(s)))
  ELSE IF Len(cur) = 0 THEN SplitWords(Tail(s), << >>)
  ELSE << cur >> \o SplitWords(Tail(s), << >>)

MinTermLen == 2

\* HybridReranker.tokenize
tokenize(text) ==
  SelectSeq(SplitWords(toLowerCase(text), << >>), LAMBDA t : Len(t) > MinTermLen)

\* .replace(/[^\w\s]/g, '').replace(/\s+/g, ' ').trim()
RECURSIVE Squeeze(_, _)
Squeeze(s, pendingSpace) ==
  IF Len(s) = 0 THEN << >>
  ELSE IF IsSpace(Head(s)) THEN Squeeze(Tail(s), TRUE)
  ELSE IF ~IsWordChar(Head(s)) THEN Squeeze(Tail(s), pendingSpace)
  ELSE (IF pendingSpace THEN << " " >> ELSE << >>) \o << Head(s) >>
       \o Squeeze(Tail(s), FALSE)

TrimLeft(s) == IF Len(s) > 0 /\ Head(s) = " " THEN Tail(s) ELSE s

TitlePrefixLen == 50

\* HybridReranker.normalizeTitle
normalizeTitle(title) ==
  LET t == TrimLeft(Squeeze(toLowerCase(title), FALSE))
  IN SubSeq(t, 1, Min(Len(t), TitlePrefixLen))

\* String(n) for a non-negative integer
RECURSIVE NatToStr(_)
NatToStr(n) ==
  IF n < 10 THEN << DigitSeq[n + 1] >>
  ELSE NatToStr(n \div 10) \o << DigitSeq[(n % 10) + 1] >>

\* ------------------------------------------------------------------------
\* Input pools: the strings, vector hits, metadata rows, queries and option
\* objects the searches are run over
\* ------------------------------------------------------------------------
StrUntitled == << "U", "n", "t", "i", "t", "l", "e", "d" >>
StrAvB == << "A", " ", "v", ".", " ", "B" >>
StrAvBPlain == << "a", " ", "v", " ", " ", "b" >>
StrStateVRam == << "S", "t", "a", "t", "e", " ", "v", ".", " ", "R", "a", "m" >>
StrSupremeCourtOfIndia == << "S", "u", "p", "r", "e", "m", "e", " ", "C", "o", "u", "r", "t", " ", "o", "f", " ", "I", "n", "d", "i", "a" >>
StrHighCourtOfDelhi == << "H", "i", "g", "h", " ", "C", "o", "u", "r", "t", " ", "o", "f", " ", "D", "e", "l", "h", "i" >>
StrBailApplication == << "B", "a", "i", "l", " ", "A", "p", "p", "l", "i", "c", "a", "t", "i", "o", "n" >>
StrCitation == << "2", "0", "2", "4", " ", "S", "C", "C", " ", "1", "5" >>
StrCriminal == << "C", "r", "i", "m", "i", "n", "a", "l" >>
QueryScenario == << "S", "u", "p", "r", "e", "m", "e", " ", "C", "o", "u", "r", "t", " ", "2", "0", "2", "4", " ", "A", " ", "v", " ", "B" >>
QueryBail == << "b", "a", "i", "l", " ", "r", "a", "m" >>
NoStr == << >>

\* a query that is null: no string, and not replaced by a default parameter
NullQuery == << "null" >>

\* A missing id is the empty string (falsy, like undefined).
NoId == ""

\* One hit of vectorDbInstance.performSimilaritySearch(...).sources
VHit(id, docId, score, similarity, title, mdTitle, mdCourt) ==
  [ id |-> id, docId |-> docId, score |-> score, similarity |-> similarity,
    title |-> title, mdTitle |-> mdTitle, mdCourt |-> mdCourt ]

VectorPool ==
  { VHit("d1", NoId, 108, 0, StrAvB, NoStr, NoStr),
    VHit(NoId, "d3", 0, 6, StrStateVRam, NoStr, StrHighCourtOfDelhi),
    VHit(NoId, NoId, 96, 0, StrAvB, NoStr, NoStr) }

\* One row of legal_judgment_metadata (every column present, null = empty)
MRow(doc_id, title, citation, court, year, case_type, jurisdiction, keywords) ==
  [ doc_id |-> doc_id, title |-> title, citation |-> citation, court |-> court,
    year |-> year, case_type |-> case_type, jurisdiction |-> jurisdiction,
    keywords |-> keywords ]

MetaPool ==
  { MRow("d1", StrAvB, NoStr, StrSupremeCourtOfIndia, 2024, NoStr, NoStr, NoStr),
    MRow("d2", StrAvBPlain, StrCitation, StrSupremeCourtOfIndia, 2023,
         StrBailApplication, StrCriminal, NoStr),
    MRow(NoId, StrStateVRam, NoStr, StrHighCourtOfDelhi, 2024, NoStr, NoStr, NoStr) }

QueryPool == { QueryScenario, QueryBail }

MaxVec == 2
MaxMeta == 2

SeqsUpTo(S, n) == UNION { [1..k -> S] : k \in 0..n }

\* options of HybridReranker.rerank; an absent key takes the default
OptSearch ==
  [ semanticWeight |-> 72, rerankerWeight |-> 36, metadataWeight |-> 12,
    maxResults |-> 10, useHostedReranker |-> TRUE ]

OptionPool ==
  { [ useHostedReranker |-> FALSE ],
    OptSearch,
    [ OptSearch EXCEPT !.maxResults = 1 ],
    [ diversityFactor |-> 0 ] @@ OptSearch,
    [ diversityFactor |-> 180 ] @@ OptSearch,
    [ OptSearch EXCEPT !.semanticWeight = 0 - 72, !.metadataWeight = 0 - 12 ],
    [ OptSearch EXCEPT !.semanticWeight = 120, !.rerankerWeight = 120,
                       !.metadataWeight = 120 ] }

Opt(o, k, d) == IF k \in DOMAIN o THEN o[k] ELSE d

DefaultSemanticWeight == 84
DefaultRerankerWeight == 24
DefaultMetadataWeight == 12
DefaultMaxResults == 10
DefaultDiversityFactor == 12
NeutralScore == 60

\* ------------------------------------------------------------------------
\* HybridReranker: merge, metadata relevance, weighted combination,
\* imbalance penalty, diversity pass
\* ------------------------------------------------------------------------

\* a || b on strings and on numbers
OrStr(a, b) == IF Len(a) > 0 THEN a ELSE b
OrNum(a, b) == IF a # 0 THEN a ELSE b
OrId(a, b) == IF a # NoId THEN a ELSE b

\* queryTerms.some(t => field.toLowerCase().includes(t)), guarded by the field
\* being non-empty
SomeTermIn(field, queryTerms) ==
  LET lower == toLowerCase(field)
  IN /\ Len(field) > 0
     /\ \E i \in 1..Len(queryTerms) : includes(lower, queryTerms[i])

\* HybridReranker.calculateMetadataRelevance
calculateMetadataRelevance(metadata, queryTerms) ==
  LET searchableText ==
        toLowerCase(JoinSpace(<< metadata.title, metadata.citation, metadata.court,
                                 metadata.case_type, metadata.jurisdiction,
                                 metadata.keywords >>))
      metadataTerms == tokenize(searchableText)
      matchCount ==
        Cardinality({ i \in 1..Len(queryTerms) : InSeq(queryTerms[i], metadataTerms) })
      overlap ==
        IF Len(queryTerms) > 0
        THEN (matchCount * One) \div (2 * Len(queryTerms))
        ELSE 0
      courtBoost == IF SomeTermIn(metadata.court, queryTerms) THEN 18 ELSE 0
      yearBoost ==
        IF metadata.year # 0 /\ InSeq(NatToStr(metadata.year), queryTerms)
        THEN 18 ELSE 0
      typeBoost == IF SomeTermIn(metadata.case_type, queryTerms) THEN 12 ELSE 0
      citationBoost == IF SomeTermIn(metadata.citation, queryTerms) THEN 24 ELSE 0
  IN Min(NeutralScore + overlap + courtBoost + yearBoost + typeBoost + citationBoost,
         One)

\* Map.has / Map.get / Map.set on the insertion-ordered document map
MapHas(map, docId) == \E i \in 1..Len(map) : map[i].docId = docId
MapIndex(map, docId) == CHOOSE i \in 1..Len(map) : map[i].docId = docId
MapSet(map, doc) ==
  IF MapHas(map, doc.docId)
  THEN [ map EXCEPT ![MapIndex(map, doc.docId)] = doc ]
  ELSE Append(map, doc)

\* Step 2 of HybridReranker.rerank, one vector hit
VectorEntry(result) ==
  [ docId |-> OrId(result.id, result.docId),
    vectorScore |-> OrNum(result.score, OrNum(result.similarity, 0)),
    metadataScore |-> 0,
    metadataMatch |-> FALSE,
    source |-> "vector",
    combinedScore |-> 0,
    title |-> result.title,
    mdTitle |-> result.mdTitle,
    mdCourt |-> result.mdCourt,
    semanticScore |-> 0,
    hostedRerankerScore |-> 0,
    metadataRelevanceScore |-> 0 ]

RECURSIVE ProcessVector(_, _)
ProcessVector(map, results) ==
  IF Len(results) = 0 THEN map
  ELSE LET result == Head(results)
       IN IF OrId(result.id, result.docId) = NoId
          THEN ProcessVector(map, Tail(results))
          ELSE ProcessVector(MapSet(map, VectorEntry(result)), Tail(results))

\* Step 3, a row whose doc_id is already in the map
MergeExisting(existing, result, relevance) ==
  [ existing EXCEPT !.metadataScore = relevance,
                    !.metadataMatch = TRUE,
                    !.mdTitle = result.title,
                    !.mdCourt = result.court,
                    !.source = "hybrid" ]

\* a metadata-only entry that takes the relevance as its vector score
MetadataEntryScored(result, relevance) ==
  [ docId |-> result.doc_id,
    vectorScore |-> relevance,
    metadataScore |-> relevance,
    metadataMatch |-> TRUE,
    source |-> "metadata",
    combinedScore |-> 0,
    title |-> OrStr(result.title, StrUntitled),
    mdTitle |-> result.title,
    mdCourt |-> result.court,
    semanticScore |-> 0,
    hostedRerankerScore |-> 0,
    metadataRelevanceScore |-> 0 ]

\* Step 3, a row found by the metadata search only
MetadataEntry(result, relevance) ==
  [ docId |-> result.doc_id,
    vectorScore |-> 0,
    metadataScore |-> relevance,
    metadataMatch |-> TRUE,
    source |-> "metadata",
    combinedScore |-> 0,
    title |-> OrStr(result.title, StrUntitled),
    mdTitle |-> result.title,
    mdCourt |-> result.court,
    semanticScore |-> 0,
    hostedRerankerScore |-> 0,
    metadataRelevanceScore |-> 0 ]

RECURSIVE ProcessMetadata(_, _, _)
ProcessMetadata(map, results, queryTerms) ==
  IF Len(results) = 0 THEN map
  ELSE LET result == Head(results)
           relevance == calculateMetadataRelevance(result, queryTerms)
       IN IF result.doc_id = NoId
          THEN ProcessMetadata(map, Tail(results), queryTerms)
          ELSE IF MapHas(map, result.doc_id)
          THEN ProcessMetadata(
                 [ map EXCEPT ![MapIndex(map, result.doc_id)] =
                     MergeExisting(map[MapIndex(map, result.doc_id)], result, relevance) ],
                 Tail(results), queryTerms)
          ELSE ProcessMetadata(Append(map, MetadataEntry(result, relevance)),
                               Tail(results), queryTerms)

\* Steps 1-3: the document map after both lists are merged
MergeResults(vectorResults_, metadataResults_, query_) ==
  ProcessMetadata(ProcessVector(<< >>, vectorResults_), metadataResults_,
                  tokenize(toLowerCase(query_)))

Clamp01(x) == Min(Max(x, 0), One)

\* Step 4: rerankerScores, the Map filled from the reranked documents
\* (rerankerScores.set(doc.docId, doc.rerankerScore || 0.5), later wins)
NoScores == [ d \in {} |-> 0 ]

RerankerScoreMap(rerankedDocs) ==
  [ d \in { rerankedDocs[i].docId : i \in { j \in 1..Len(rerankedDocs) :
                                             rerankedDocs[j].docId # NoId } } |->
      LET last == CHOOSE i \in 1..Len(rerankedDocs) :
                    /\ rerankedDocs[i].docId = d
                    /\ \A j \in (i + 1)..Len(rerankedDocs) : rerankedDocs[j].docId # d
      IN OrNum(rerankedDocs[last].rerankerScore, NeutralScore) ]

\* rerankerScores.get(docId) || 0.5
HostedScore(rerankerScores, docId) ==
  IF docId \in DOMAIN rerankerScores
  THEN OrNum(rerankerScores[docId], NeutralScore)
  ELSE NeutralScore

\* Step 5 with the imbalance penalty applied to every source
ScoreDocAnySource(doc, rerankerScores, opts, nVector, nMetadata) ==
  LET semanticScore == Clamp01(doc.vectorScore)
      metadataScore == Clamp01(doc.metadataScore)
      hostedRerankerScore == HostedScore(rerankerScores, doc.docId)
      weighted ==
        semanticScore * Opt(opts, "semanticWeight", DefaultSemanticWeight)
        + hostedRerankerScore * Opt(opts, "rerankerWeight", DefaultRerankerWeight)
        + metadataScore * Opt(opts, "metadataWeight", DefaultMetadataWeight)
      combined ==
        IF nMetadata > nVector
        THEN weighted * (One - Opt(opts, "diversityFactor", DefaultDiversityFactor))
        ELSE weighted * One
  IN [ doc EXCEPT !.combinedScore = Min(combined, Full),
                  !.semanticScore = semanticScore,
                  !.hostedRerankerScore = hostedRerankerScore,
                  !.metadataRelevanceScore = metadataScore ]

\* Step 5, one document: weighted combination, imbalance penalty, cap at 1.0
ScoreDoc(doc, rerankerScores, opts, nVector, nMetadata) ==
  LET semanticScore == Clamp01(doc.vectorScore)
      metadataScore == Clamp01(doc.metadataScore)
      hostedRerankerScore == HostedScore(rerankerScores, doc.docId)
      weighted ==
        semanticScore * Opt(opts, "semanticWeight", DefaultSemanticWeight)
        + hostedRerankerScore * Opt(opts, "rerankerWeight", DefaultRerankerWeight)
        + metadataScore * Opt(opts, "metadataWeight", DefaultMetadataWeight)
      combined ==
        IF doc.source = "metadata" /\ nMetadata > nVector
        THEN weighted * (One - Opt(opts, "diversityFactor", DefaultDiversityFactor))
        ELSE weighted * One
  IN [ doc EXCEPT !.combinedScore = Min(combined, Full),
                  !.semanticScore = semanticScore,
                  !.hostedRerankerScore = hostedRerankerScore,
                  !.metadataRelevanceScore = metadataScore ]

ScoreAll(map, rerankerScores, opts, nVector, nMetadata) ==
  [ i \in 1..Len(map) |-> ScoreDoc(map[i], rerankerScores, opts, nVector, nMetadata) ]

\* Array.prototype.sort((a, b) => b.combinedScore - a.combinedScore): stable,
\* descending
RECURSIVE InsertDesc(_, _)
InsertDesc(sorted, x) ==
  IF Len(sorted) = 0 THEN << x >>
  ELSE IF Head(sorted).combinedScore >= x.combinedScore
  THEN << Head(sorted) >> \o InsertDesc(Tail(sorted), x)
  ELSE << x >> \o sorted

RECURSIVE SortInto(_, _)
SortInto(sorted, rest) ==
  IF Len(rest) = 0 THEN sorted
  ELSE SortInto(InsertDesc(sorted, Head(rest)), Tail(rest))

SortByCombinedScore(results) == SortInto(<< >>, results)

\* the title and court the diversity pass looks at
DiversityTitle(result) == OrStr(result.title, result.mdTitle)
DiversityCourt(result) == result.mdCourt

\* the loop with the court penalty as large as the title penalty
RECURSIVE DiversityLoopEqualPenalties(_, _, _, _)
DiversityLoopEqualPenalties(results, diversityFactor, seenTitles, seenCourts) ==
  IF Len(results) = 0 THEN << >>
  ELSE LET result == Head(results)
           title == DiversityTitle(result)
           court == DiversityCourt(result)
           titlePenalty ==
             IF Len(title) > 0 /\ normalizeTitle(title) \in seenTitles
             THEN diversityFactor * Sq ELSE 0
           courtPenalty ==
             IF Len(court) > 0 /\ court \in seenCourts
             THEN diversityFactor * Sq ELSE 0
           adjusted ==
             [ result EXCEPT !.combinedScore =
                 Max(0, result.combinedScore - (titlePenalty + courtPenalty)) ]
       IN << adjusted >> \o
          DiversityLoopEqualPenalties(Tail(results), diversityFactor,
                        IF Len(title) > 0 THEN seenTitles \cup { normalizeTitle(title) }
                                          ELSE seenTitles,
                        IF Len(court) > 0 THEN seenCourts \cup { court }
                                          ELSE seenCourts)

\* the loop of applyDiversity
RECURSIVE DiversityLoop(_, _, _, _)
DiversityLoop(results, diversityFactor, seenTitles, seenCourts) ==
  IF Len(results) = 0 THEN << >>
  ELSE LET result == Head(results)
           title == DiversityTitle(result)
           court == DiversityCourt(result)
           titlePenalty ==
             IF Len(title) > 0 /\ normalizeTitle(title) \in seenTitles
             THEN diversityFactor * Sq ELSE 0
           courtPenalty ==
             IF Len(court) > 0 /\ court \in seenCourts
             THEN (diversityFactor * Sq) \div 2 ELSE 0
           adjusted ==
             [ result EXCEPT !.combinedScore =
                 Max(0, result.combinedScore - (titlePenalty + courtPenalty)) ]
       IN << adjusted >> \o
          DiversityLoop(Tail(results), diversityFactor,
                        IF Len(title) > 0 THEN seenTitles \cup { normalizeTitle(title) }
                                          ELSE seenTitles,
                        IF Len(court) > 0 THEN seenCourts \cup { court }
                                          ELSE seenCourts)

\* applyDiversity without its final re-sort
applyDiversityNoResort(results, diversityFactor) ==
  IF diversityFactor <= 0 \/ Len(results) <= 1 THEN results
  ELSE DiversityLoop(results, diversityFactor, {}, {})

\* HybridReranker.applyDiversity
applyDiversity(results, diversityFactor) ==
  IF diversityFactor <= 0 \/ Len(results) <= 1 THEN results
  ELSE SortByCombinedScore(DiversityLoop(results, diversityFactor, {}, {}))

\* Array.prototype.slice(0, n)
SliceTo(arr, n) ==
  IF n >= 0 THEN SubSeq(arr, 1, Min(n, Len(arr)))
  ELSE SubSeq(arr, 1, Max(Len(arr) + n, 0))

\* Steps 5-8 of HybridReranker.rerank: score, sort, diversify, truncate
RankMerged(map, rerankerScores, opts, nVector, nMetadata) ==
  SliceTo(
    applyDiversity(
      SortByCombinedScore(ScoreAll(map, rerankerScores, opts, nVector, nMetadata)),
      Opt(opts, "diversityFactor", DefaultDiversityFactor)),
    Opt(opts, "maxResults", DefaultMaxResults))

\* ------------------------------------------------------------------------
\* Reranker providers (providers/openai.js, providers/cohere.js,
\* providers/gemini.js).  A call's result is [threw, value]: threw = TRUE
\* is an exception (a rejected promise) leaving the call.
\* ------------------------------------------------------------------------
Returned(v) == [ threw |-> FALSE, value |-> v ]
Thrown == [ threw |-> TRUE, value |-> << >> ]

\* { ...doc, rerankerScore: s }
WithScore(doc, s) == [ rerankerScore |-> s ] @@ doc

\* documents.map(doc => ({ ...doc, rerankerScore: 0.5 }))
NeutralDocs(documents) ==
  [ i \in 1..Len(documents) |-> WithScore(documents[i], NeutralScore) ]

\* rankedDocs.sort((a, b) => b.rerankerScore - a.rerankerScore)
RECURSIVE InsertByRerankerScore(_, _)
InsertByRerankerScore(sorted, x) ==
  IF Len(sorted) = 0 THEN << x >>
  ELSE IF Head(sorted).rerankerScore >= x.rerankerScore
  THEN << Head(sorted) >> \o InsertByRerankerScore(Tail(sorted), x)
  ELSE << x >> \o sorted

RECURSIVE SortRankedInto(_, _)
SortRankedInto(sorted, rest) ==
  IF Len(rest) = 0 THEN sorted
  ELSE SortRankedInto(InsertByRerankerScore(sorted, Head(rest)), Tail(rest))

SortByRerankerScore(docs) == SortRankedInto(<< >>, docs)

\* documents.map((doc, idx) => ({ ...doc, rerankerScore: scores[idx] || 0.5 }))
AttachScores(documents, scores) ==
  [ i \in 1..Len(documents) |->
      WithScore(documents[i],
                IF i <= Len(scores) THEN OrNum(scores[i], NeutralScore)
                ELSE NeutralScore) ]

\* Array(expectedCount).fill(0.5)
DefaultScores(expectedCount) == [ i \in 1..expectedCount |-> NeutralScore ]

\* a parseFloat result: a number, or NaN
Num(v) == [ nan |-> FALSE, val |-> v ]
NaN == [ nan |-> TRUE, val |-> 0 ]

\* .filter(s => !isNaN(s)), then the numbers themselves
Numbers(entries) ==
  LET kept == SelectSeq(entries, LAMBDA e : ~e.nan)
  IN [ i \in 1..Len(kept) |-> kept[i].val ]

ClampAll(scores) == [ i \in 1..Len(scores) |-> Clamp01(scores[i]) ]

\* ---- Cohere -------------------------------------------------------------
\* data.results?.find(r => r.index === idx)?.relevance_score || 0.5
CohereScore(results, idx) ==
  IF \E k \in 1..Len(results) : results[k].index = idx
  THEN OrNum(results[CHOOSE k \in 1..Len(results) :
                       /\ results[k].index = idx
                       /\ \A j \in 1..(k - 1) : results[j].index # idx].relevance_score,
             NeutralScore)
  ELSE NeutralScore

\* the try block of CohereReranker.rerank
CohereTry(documents, resp) ==
  IF Len(documents) = 0 THEN Returned(<< >>)
  ELSE IF resp.kind # "ok" THEN Thrown
  ELSE Returned(SortByRerankerScore(
         [ i \in 1..Len(documents) |->
             WithScore(documents[i], CohereScore(resp.results, i - 1)) ]))

\* CohereReranker.rerank
CohereRerank(documents, resp) ==
  IF CohereTry(documents, resp).threw
  THEN Returned(NeutralDocs(documents))
  ELSE CohereTry(documents, resp)

\* ---- OpenAI -------------------------------------------------------------
\* OpenAIReranker.parseScores; content is the message content after
\* JSON.parse: "unparsable" (JSON.parse throws), "noScores" (no scores
\* array) or "scores" with the array's entries after parseFloat
OpenAIParseScores(content, expectedCount) ==
  IF content.json = "scores"
     /\ Len(Numbers(content.scores)) = expectedCount
  THEN ClampAll(Numbers(content.scores))
  ELSE DefaultScores(expectedCount)

\* the try block of OpenAIReranker.rerank
OpenAITry(documents, resp) ==
  IF Len(documents) = 0 THEN Returned(<< >>)
  ELSE IF resp.kind # "ok" THEN Thrown
  ELSE Returned(SortByRerankerScore(
         AttachScores(documents, OpenAIParseScores(resp.content, Len(documents)))))

\* OpenAIReranker.rerank
OpenAIRerank(documents, resp) ==
  IF OpenAITry(documents, resp).threw
  THEN Returned(NeutralDocs(documents))
  ELSE OpenAITry(documents, resp)

\* ---- Gemini -------------------------------------------------------------
IsDigit(c) == c \in DigitChars
DigitVal(c) == (CHOOSE i \in 1..Len(DigitSeq) : DigitSeq[i] = c) - 1

\* the class [\d\s.,]
IsArrayChar(c) == IsDigit(c) \/ IsSpace(c) \/ c = "." \/ c = ","

\* the first position at or after j that holds no [\d\s.,] character
RECURSIVE ArrayEnd(_, _)
ArrayEnd(text, j) ==
  IF j > Len(text) \/ ~IsArrayChar(text[j]) THEN j ELSE ArrayEnd(text, j + 1)

\* /\[([\d\s.,]+)\]/ matches at position i
ArrayAt(text, i) ==
  /\ text[i] = "["
  /\ ArrayEnd(text, i + 1) <= Len(text)
  /\ text[ArrayEnd(text, i + 1)] = "]"
  /\ ArrayEnd(text, i + 1) > i + 1

HasArray(text) == \E i \in 1..Len(text) : ArrayAt(text, i)

\* jsonMatch[1] of the leftmost match
ArrayBody(text) ==
  LET i == CHOOSE k \in 1..Len(text) :
             ArrayAt(text, k) /\ \A j \in 1..(k - 1) : ~ArrayAt(text, j)
  IN SubSeq(text, i + 1, ArrayEnd(text, i + 1) - 1)

\* String.prototype.split(',')
RECURSIVE SplitComma(_, _)
SplitComma(s, cur) ==
  IF Len(s) = 0 THEN << cur >>
  ELSE IF Head(s) = "," THEN << cur >> \o SplitComma(Tail(s), << >>)
  ELSE SplitComma(Tail(s), Append(cur, Head(s)))

RECURSIVE LeadingDigits(_)
LeadingDigits(s) ==
  IF Len(s) > 0 /\ IsDigit(Head(s)) THEN << Head(s) >> \o LeadingDigits(Tail(s))
  ELSE << >>

RECURSIVE DigitsValue(_)
DigitsValue(ds) ==
  IF Len(ds) = 0 THEN 0
  ELSE DigitsValue(SubSeq(ds, 1, Len(ds) - 1)) * 10 + DigitVal(ds[Len(ds)])

RECURSIVE Pow10(_)
Pow10(k) == IF k = 0 THEN 1 ELSE 10 * Pow10(k - 1)

RECURSIVE SkipSpaces(_)
SkipSpaces(s) == IF Len(s) > 0 /\ IsSpace(Head(s)) THEN SkipSpaces(Tail(s)) ELSE s

\* parseFloat of a string of digits, spaces and dots, in units of 1/One
ParseFloat(str) ==
  LET t == SkipSpaces(str)
      ip == LeadingDigits(t)
      rest == SubSeq(t, Len(ip) + 1, Len(t))
      fp == IF Len(rest) > 0 /\ Head(rest) = "." THEN LeadingDigits(Tail(rest))
            ELSE << >>
  IN IF Len(ip) = 0 /\ Len(fp) = 0 THEN NaN
     ELSE Num(DigitsValue(ip) * One + (DigitsValue(fp) * One) \div Pow10(Len(fp)))

\* text.match(/\d+\.\d+/g): the matches from position i on
RECURSIVE DecimalsFrom(_, _)
DecimalsFrom(text, i) ==
  IF i > Len(text) THEN << >>
  ELSE LET ip == LeadingDigits(SubSeq(text, i, Len(text)))
           dot == i + Len(ip)
           fp == IF Len(ip) > 0 /\ dot <= Len(text) /\ text[dot] = "."
                 THEN LeadingDigits(SubSeq(text, dot + 1, Len(text)))
                 ELSE << >>
       IN IF Len(fp) > 0
          THEN << SubSeq(text, i, dot + Len(fp)) >>
               \o DecimalsFrom(text, dot + Len(fp) + 1)
          ELSE DecimalsFrom(text, i + 1)

\* GeminiReranker.parseScores
GeminiParseScores(text, expectedCount) ==
  LET pieces == SplitComma(ArrayBody(text), << >>)
      scores == Numbers([ i \in 1..Len(pieces) |-> ParseFloat(pieces[i]) ])
      numbers == DecimalsFrom(text, 1)
  IN IF HasArray(text) /\ Len(scores) = expectedCount
     THEN ClampAll(scores)
     ELSE IF Len(numbers) > 0 /\ Len(numbers) >= expectedCount
     THEN [ i \in 1..expectedCount |-> Clamp01(ParseFloat(numbers[i]).val) ]
     ELSE DefaultScores(expectedCount)

\* the try block of GeminiReranker.rerank
GeminiTry(documents, resp) ==
  IF Len(documents) = 0 THEN Returned(<< >>)
  ELSE IF resp.kind # "ok" THEN Thrown
  ELSE Returned(SortByRerankerScore(
         AttachScores(documents, GeminiParseScores(resp.text, Len(documents)))))

\* GeminiReranker.rerank without its catch
GeminiRerankNoCatch(documents, resp) == GeminiTry(documents, resp)

\* GeminiReranker.rerank
GeminiRerank(documents, resp) ==
  IF GeminiTry(documents, resp).threw
  THEN Returned(NeutralDocs(documents))
  ELSE GeminiTry(documents, resp)

\* provider.rerank(query, documents) of the configured provider
ProviderRerank(provider_, documents, resp) ==
  CASE provider_ = "cohere" -> CohereRerank(documents, resp)
    [] provider_ = "openai" -> OpenAIRerank(documents, resp)
    [] provider_ = "gemini" -> GeminiRerank(documents, resp)

\* ------------------------------------------------------------------------
\* What the external scoring services can answer
\* ------------------------------------------------------------------------
\* fetch rejects / the SDK throws, a non-OK HTTP status, an unreadable body
Failures ==
  { [ kind |-> "neterr" ], [ kind |-> "http" ], [ kind |-> "badbody" ] }

ScoreVals == { 0 - 36, 0, 96, 150 }

\* Cohere: results aligned by index with any scores, reversed, or partial
CohereResults(n, vals) ==
  { [ i \in 1..n |-> [ index |-> i - 1, relevance_score |-> v[i] ] ] :
      v \in [ 1..n -> vals ] }
  \cup { [ i \in 1..n |-> [ index |-> n - i, relevance_score |-> v[i] ] ] :
      v \in [ 1..n -> vals ] }
  \cup { << >>, << [ index |-> 0, relevance_score |-> 96 ] >> }

CohereResponses(n, vals) ==
  Failures \cup { [ kind |-> "ok", results |-> r ] : r \in CohereResults(n, vals) }

\* OpenAI: message content that does not parse, has no scores array, or has
\* a scores array of any length up to n + 1 whose entries may be non-numeric
OpenAIContents(n, vals) ==
  { [ json |-> "unparsable", scores |-> << >> ],
    [ json |-> "noScores", scores |-> << >> ] }
  \cup { [ json |-> "scores", scores |-> sc ] :
           sc \in SeqsUpTo({ Num(v) : v \in vals } \cup { NaN }, n + 1) }

OpenAIResponses(n, vals) ==
  Failures \cup { [ kind |-> "ok", content |-> c ] : c \in OpenAIContents(n, vals) }

\* Gemini: free text
TextTwo == << "[", "0", ".", "9", ",", " ", "0", ".", "3", "]" >>
TextOne == << "S", "c", "o", "r", "e", "s", ":", " ", "[", "0", ".", "9", "]" >>
TextThree == << "[", "1", ".", "5", ",", " ", "0", ",", " ", "0", ".", "2", "5", "]" >>
TextGap == << "[", "0", ".", "9", ",", " ", ",", " ", "0", ".", "3", "]" >>
TextLoose == << "0", ".", "9", " ", "0", ".", "3", " ", "1", ".", "5", " ", "0", ".", "1", " ", "0", ".", "2" >>
TextNone == << "n", "o", "n", "e" >>

GeminiTexts == { TextTwo, TextOne, TextThree, TextGap, TextLoose, TextNone }

GeminiResponses ==
  Failures \cup { [ kind |-> "ok", text |-> t ] : t \in GeminiTexts }

Responses(provider_, n, vals) ==
  CASE provider_ = "cohere" -> CohereResponses(n, vals)
    [] provider_ = "openai" -> OpenAIResponses(n, vals)
    [] provider_ = "gemini" -> GeminiResponses

\* ------------------------------------------------------------------------
\* State
\* ------------------------------------------------------------------------
VARIABLES
  env,              \* process.env: the reranker configuration
  provider,         \* rerankerService.provider ("none" is null)
  initialized,      \* rerankerService.initialized
  constructed,      \* provider instances constructed so far
  initEnv,          \* the configuration initialize() ran under ("none" before)
  lastAvailable,    \* what the last isAvailable() returned ("unasked" before)
  calls,            \* the rerank / rerankBatch calls of the concurrent requests
  pcall,            \* one direct call of a provider's rerank
  vectorResults,    \* HybridReranker.rerank: its arguments,
  metadataResults,
  query,
  options,
  fpc,              \* where the fusion is: "off", "ready", "awaiting", "done"
  documentMap,      \* the merged documents while the reranker call is awaited
  fuseOut,          \* what the fusion returned
  search,           \* one call of HybridSearchManager.search
  again             \* a caller that calls the fusion twice with the same arguments

svcVars == << env, provider, initialized, constructed, initEnv, lastAvailable,
              calls >>
fuseVars == << vectorResults, metadataResults, query, options, fpc, documentMap,
               fuseOut >>
vars == << env, provider, initialized, constructed, initEnv, lastAvailable,
           calls, pcall, vectorResults, metadataResults, query,
           options, fpc, documentMap, fuseOut, search, again >>

\* ------------------------------------------------------------------------
\* RerankerService
\* ------------------------------------------------------------------------
ProviderNames == { "gemini", "cohere", "openai", "Cohere", "voyage", "unset" }

Env(enabled, name, rerankerKey, geminiKey, openaiKey) ==
  [ enabled |-> enabled, providerName |-> name, rerankerKey |-> rerankerKey,
    geminiKey |-> geminiKey, openaiKey |-> openaiKey ]

\* RERANKER_ENABLED, RERANKER_PROVIDER, RERANKER_API_KEY, GEMINI_API_KEY,
\* OPEN_AI_KEY (a key is modelled by whether it is set)
EnvPool ==
  { Env(FALSE, "cohere", TRUE, FALSE, FALSE),
    Env(FALSE, "unset", FALSE, FALSE, FALSE),
    Env(TRUE, "cohere", TRUE, FALSE, FALSE),
    Env(TRUE, "Cohere", TRUE, TRUE, FALSE),
    Env(TRUE, "cohere", FALSE, TRUE, TRUE),
    Env(TRUE, "gemini", FALSE, TRUE, FALSE),
    Env(TRUE, "gemini", FALSE, FALSE, FALSE),
    Env(TRUE, "openai", FALSE, FALSE, TRUE),
    Env(TRUE, "openai", FALSE, TRUE, FALSE),
    Env(TRUE, "voyage", TRUE, TRUE, TRUE),
    Env(TRUE, "unset", TRUE, FALSE, FALSE) }

\* process.env.RERANKER_PROVIDER?.toLowerCase()
LowerName(n) == IF n = "Cohere" THEN "cohere" ELSE n

\* the switch without the checks for a missing key
SelectProviderUnchecked(e) ==
  LET name == LowerName(e.providerName)
  IN IF name \in { "gemini", "cohere", "openai" } THEN name ELSE "none"

\* the switch of initialize(): the provider constructed, "none" when the key
\* is missing (the thrown Error is caught) or the name is unknown
SelectProvider(e) ==
  LET name == LowerName(e.providerName)
  IN CASE name = "gemini" ->
            IF e.rerankerKey \/ e.geminiKey THEN "gemini" ELSE "none"
       [] name = "cohere" ->
            IF e.rerankerKey THEN "cohere" ELSE "none"
       [] name = "openai" ->
            IF e.rerankerKey \/ e.openaiKey THEN "openai" ELSE "none"
       [] OTHER -> "none"

Service(p, i, c, e) ==
  [ provider |-> p, initialized |-> i, constructed |-> c, initEnv |-> e ]

NotInitialized == [ at |-> "none" ]
InitializedAt(e) == [ at |-> "init", env |-> e ]

\* RerankerService.initialize on the service s under configuration e
initialize(s, e) ==
  IF s.initialized THEN s
  ELSE IF ~e.enabled THEN Service(s.provider, TRUE, s.constructed, InitializedAt(e))
  ELSE Service(SelectProvider(e), TRUE,
               s.constructed + (IF SelectProvider(e) # "none" THEN 1 ELSE 0),
               InitializedAt(e))

\* initialize() run on every call, the initialized flag never consulted
AlwaysInitialize(s, e) == initialize([ s EXCEPT !.initialized = FALSE ], e)

\* "if (!this.initialized) this.initialize()" of every public method
EnsureInitialized(s, e) == IF ~s.initialized THEN initialize(s, e) ELSE s

Current == Service(provider, initialized, constructed, initEnv)

\* the service fields after "if (!this.initialized) this.initialize()"
SetService(s) ==
  /\ provider' = s.provider
  /\ initialized' = s.initialized
  /\ constructed' = s.constructed
  /\ initEnv' = s.initEnv

AvailableAnswer(s) == IF s.provider # "none" THEN "yes" ELSE "no"

\* RerankerService.isAvailable
IsAvailable ==
  /\ SetService(EnsureInitialized(Current, env))
  /\ lastAvailable' = AvailableAnswer(EnsureInitialized(Current, env))
  /\ UNCHANGED << again, search, env, calls, pcall, fuseVars >>

\* RerankerService.getConfig: initializes, reads process.env and asks
\* isAvailable() for the "available" field of the object it returns
GetConfig ==
  /\ SetService(EnsureInitialized(Current, env))
  /\ lastAvailable' = AvailableAnswer(EnsureInitialized(Current, env))
  /\ UNCHANGED << again, search, env, calls, pcall, fuseVars >>

\* the configuration changes while the process runs
EnvChange(envs) ==
  /\ \E e \in envs \ { env } : env' = e
  /\ UNCHANGED << again, search, provider, initialized, constructed, initEnv, lastAvailable,
                  calls, pcall, fuseVars >>

\* what provider.rerank can come back with: the provider's own result for
\* any answer of the scoring service, or an exception
ProviderOutcomes(provider_, documents, vals) ==
  { ProviderRerank(provider_, documents, resp) :
      resp \in Responses(provider_, Len(documents), vals) }
  \cup { Thrown }

\* the provider's outcome passed on without a catch
ServiceNoCatch(documents, outcome) == outcome

\* the try/catch of RerankerService.rerank and rerankBatch around the
\* provider's outcome
ServiceCatch(documents, outcome) ==
  IF outcome.threw THEN Returned(NeutralDocs(documents)) ELSE outcome

CohereBatchSize == 100
ChatBatchSize == 10
DefaultBatchSize(provider_) ==
  IF provider_ = "cohere" THEN CohereBatchSize ELSE ChatBatchSize

\* batchSize = undefined
NoBatchSize == 0 - 1
BatchSizeOf(provider_, batchSize) ==
  IF batchSize = NoBatchSize THEN DefaultBatchSize(provider_) ELSE batchSize

\* failed records that the provider's promise was rejected
Call(pc, op, documents, batchSize, next, acc, result) ==
  [ pc |-> pc, op |-> op, documents |-> documents, batchSize |-> batchSize,
    next |-> next, acc |-> acc, failed |-> FALSE, result |-> result ]
IdleCall == Call("idle", "none", << >>, 0, 0, << >>, Returned(<< >>))

\* RerankerService.rerank up to the await (or to its return when no
\* provider is set)
Rerank(r, documents) ==
  /\ calls[r].pc # "awaiting"
  /\ SetService(EnsureInitialized(Current, env))
  /\ calls' = [ calls EXCEPT ![r] =
       IF EnsureInitialized(Current, env).provider = "none"
       THEN Call("done", "rerank", documents, 0, 0, << >>,
                 Returned(NeutralDocs(documents)))
       ELSE Call("awaiting", "rerank", documents, 0, 0, << >>, Returned(<< >>)) ]
  /\ UNCHANGED << again, search, env, lastAvailable, pcall, fuseVars >>

\* RerankerService.rerank from the await on
RerankSettle(r, vals) ==
  /\ calls[r].pc = "awaiting"
  /\ calls[r].op = "rerank"
  /\ \E outcome \in ProviderOutcomes(provider, calls[r].documents, vals) :
       calls' = [ calls EXCEPT ![r] =
         [ @ EXCEPT !.pc = "done",
                    !.failed = outcome.threw,
                    !.result = ServiceCatch(calls[r].documents, outcome) ] ]
  /\ UNCHANGED << again, search, env, provider, initialized, constructed, initEnv,
                  lastAvailable, pcall, fuseVars >>

\* RerankerService.rerankBatch up to the await
RerankBatch(r, documents, batchSize) ==
  /\ calls[r].pc # "awaiting"
  /\ SetService(EnsureInitialized(Current, env))
  /\ calls' = [ calls EXCEPT ![r] =
       IF EnsureInitialized(Current, env).provider = "none"
       THEN Call("done", "rerankBatch", documents, batchSize, 0, << >>,
                 Returned(NeutralDocs(documents)))
       ELSE Call("awaiting", "rerankBatch", documents,
                 BatchSizeOf(EnsureInitialized(Current, env).provider, batchSize),
                 0, << >>, Returned(<< >>)) ]
  /\ UNCHANGED << again, search, env, lastAvailable, pcall, fuseVars >>

\* documents.slice(i, i + batchSize)
BatchAt(documents, i, batchSize) ==
  SubSeq(documents, i + 1, Min(i + batchSize, Len(documents)))

\* one round of the provider's rerankBatch loop (one awaited rerank of a
\* chunk), or its return once the loop is over; an exception leaving the
\* loop is caught by RerankerService.rerankBatch
BatchStep(r, vals) ==
  /\ calls[r].pc = "awaiting"
  /\ calls[r].op = "rerankBatch"
  /\ LET c == calls[r]
         batch == BatchAt(c.documents, c.next, c.batchSize)
     IN IF c.next >= Len(c.documents)
        THEN calls' = [ calls EXCEPT ![r] =
               [ @ EXCEPT !.pc = "done", !.result = Returned(c.acc) ] ]
        ELSE \E outcome \in ProviderOutcomes(provider, batch, vals) :
               calls' = [ calls EXCEPT ![r] =
                 IF outcome.threw
                 THEN [ @ EXCEPT !.pc = "done",
                                 !.failed = TRUE,
                                 !.result = ServiceCatch(c.documents, outcome) ]
                 ELSE [ @ EXCEPT !.next = c.next + c.batchSize,
                                 !.acc = c.acc \o outcome.value ] ]
  /\ UNCHANGED << again, search, env, provider, initialized, constructed, initEnv,
                  lastAvailable, pcall, fuseVars >>

\* ------------------------------------------------------------------------
\* HybridReranker.rerank as a process: from its call to the awaited
\* rerankerService.rerank, and from there to its return
\* ------------------------------------------------------------------------

\* the try/catch of Step 4 around rerankerService.rerank: the scores recorded
RecordedScores(serviceResult) ==
  IF serviceResult.threw THEN NoScores ELSE RerankerScoreMap(serviceResult.value)

UseHosted(opts) == Opt(opts, "useHostedReranker", TRUE)

\* "useHostedReranker && rerankerService.isAvailable()": the service after
\* the test, and the test's value
\* the same test with the provider selected anew from process.env each time
ServiceReselected(opts) ==
  IF UseHosted(opts)
  THEN initialize(Service("none", FALSE, constructed, NotInitialized), env)
  ELSE Current

ServiceAfterTest(opts) ==
  IF UseHosted(opts) THEN EnsureInitialized(Current, env) ELSE Current
\* the test without rerankerService.isAvailable()
HostedWhenAsked(opts) == UseHosted(opts)

HostedAvailable(opts) ==
  UseHosted(opts) /\ ServiceAfterTest(opts).provider # "none"

\* the catch of HybridReranker.rerank:
\* vectorResults.slice(0, options.maxResults || 10)
FallbackMaxResults == 10
RerankCatch(vectorResults_, opts) ==
  SliceTo(vectorResults_, OrNum(Opt(opts, "maxResults", 0), FallbackMaxResults))

\* HybridReranker.rerank up to the await of rerankerService.rerank, or to
\* its return when the hosted reranker is not used or Step 1 throws
FuseStart ==
  /\ fpc = "ready"
  /\ IF query = NullQuery
     THEN \* query.toLowerCase() throws in Step 1
          /\ SetService(Current)
          /\ lastAvailable' = lastAvailable
          /\ documentMap' = << >>
          /\ fpc' = "failed"
          /\ fuseOut' = RerankCatch(vectorResults, options)
     ELSE /\ SetService(ServiceAfterTest(options))
          /\ lastAvailable' = IF UseHosted(options)
                              THEN AvailableAnswer(ServiceAfterTest(options))
                              ELSE lastAvailable
          /\ documentMap' = MergeResults(vectorResults, metadataResults, query)
          /\ IF HostedAvailable(options)
             THEN /\ fpc' = "awaiting"
                  /\ fuseOut' = << >>
             ELSE /\ fpc' = "done"
                  /\ fuseOut' = RankMerged(documentMap', NoScores, options,
                                           Len(vectorResults), Len(metadataResults))
  /\ UNCHANGED << again, search, env, calls, pcall, vectorResults, metadataResults, query,
                  options >>

\* HybridReranker.rerank from the settled rerankerService.rerank to its return
FuseResumeWith(outcome) ==
  /\ fpc = "awaiting"
  /\ fuseOut' = RankMerged(documentMap,
                           RecordedScores(ServiceCatch(documentMap, outcome)),
                           options, Len(vectorResults), Len(metadataResults))
  /\ fpc' = "done"
  /\ UNCHANGED << search, svcVars, pcall, vectorResults, metadataResults, query,
                  options, documentMap >>

FuseResume(vals) ==
  /\ fpc = "awaiting"
  /\ \E outcome \in ProviderOutcomes(provider, documentMap, vals) :
       FuseResumeWith(outcome)
  /\ UNCHANGED again

\* ------------------------------------------------------------------------
\* A caller that calls HybridReranker.rerank a second time with the arguments
\* of the first call, the hosted reranker answering as it did the first time
\* ------------------------------------------------------------------------
NoAnswer == [ threw |-> FALSE, value |-> << >>, asked |-> FALSE ]
Answer(outcome) == [ threw |-> outcome.threw, value |-> outcome.value, asked |-> TRUE ]
OutcomeOf(answer) == [ threw |-> answer.threw, value |-> answer.value ]

FirstCall(vectorResults_, metadataResults_) ==
  [ call |-> 1, firstOut |-> << >>, answer |-> NoAnswer,
    given |-> << vectorResults_, metadataResults_ >> ]
NoRepeat == [ call |-> 0, firstOut |-> << >>, answer |-> NoAnswer,
              given |-> << << >>, << >> >> ]

\* the first call has returned: the caller calls again
FuseAgain ==
  /\ again.call = 1
  /\ fpc = "done"
  /\ again' = [ again EXCEPT !.call = 2, !.firstOut = fuseOut ]
  /\ fpc' = "ready"
  /\ documentMap' = << >>
  /\ fuseOut' = << >>
  /\ UNCHANGED << search, svcVars, pcall, vectorResults, metadataResults, query,
                  options >>

\* rerankerService.rerank settles; in the second call as in the first
RepeatResume(vals) ==
  /\ fpc = "awaiting"
  /\ \E outcome \in (IF again.call = 2 /\ again.answer.asked
                     THEN { OutcomeOf(again.answer) }
                     ELSE ProviderOutcomes(provider, documentMap, vals)) :
       /\ FuseResumeWith(outcome)
       /\ again' = [ again EXCEPT !.answer = Answer(outcome) ]

\* ------------------------------------------------------------------------
\* HybridSearchManager.extractFiltersFromQuery
\* ------------------------------------------------------------------------
PatSupremeCourt == << "s", "u", "p", "r", "e", "m", "e", " ", "c", "o", "u", "r", "t" >>
PatHighCourtOf == << "h", "i", "g", "h", " ", "c", "o", "u", "r", "t", " ", "o", "f", " " >>
PatDelhiHighCourt == << "d", "e", "l", "h", "i", " ", "h", "i", "g", "h", " ", "c", "o", "u", "r", "t" >>
PatBombayHighCourt == << "b", "o", "m", "b", "a", "y", " ", "h", "i", "g", "h", " ", "c", "o", "u", "r", "t" >>
PatCalcuttaHighCourt == << "c", "a", "l", "c", "u", "t", "t", "a", " ", "h", "i", "g", "h", " ", "c", "o", "u", "r", "t" >>
PatMadrasHighCourt == << "m", "a", "d", "r", "a", "s", " ", "h", "i", "g", "h", " ", "c", "o", "u", "r", "t" >>
PatCriminalAppeal == << "c", "r", "i", "m", "i", "n", "a", "l", " ", "a", "p", "p", "e", "a", "l" >>
PatCivilAppeal == << "c", "i", "v", "i", "l", " ", "a", "p", "p", "e", "a", "l" >>
PatWritPetition == << "w", "r", "i", "t", " ", "p", "e", "t", "i", "t", "i", "o", "n" >>
PatSpecialLeavePetition == << "s", "p", "e", "c", "i", "a", "l", " ", "l", "e", "a", "v", "e", " ", "p", "e", "t", "i", "t", "i", "o", "n" >>
PatSlp == << "s", "l", "p" >>
PatPil == << "p", "i", "l" >>
PatPublicInterestLitigation == << "p", "u", "b", "l", "i", "c", " ", "i", "n", "t", "e", "r", "e", "s", "t", " ", "l", "i", "t", "i", "g", "a", "t", "i", "o", "n" >>
PatBail == << "b", "a", "i", "l" >>
PatCriminal == << "c", "r", "i", "m", "i", "n", "a", "l" >>
PatCivil == << "c", "i", "v", "i", "l" >>
PatConstitutionBench == << "c", "o", "n", "s", "t", "i", "t", "u", "t", "i", "o", "n", " ", "b", "e", "n", "c", "h" >>
PatDivisionBench == << "d", "i", "v", "i", "s", "i", "o", "n", " ", "b", "e", "n", "c", "h" >>
ValHighCourtOfBombay == << "H", "i", "g", "h", " ", "C", "o", "u", "r", "t", " ", "o", "f", " ", "B", "o", "m", "b", "a", "y" >>
ValHighCourtOfCalcutta == << "H", "i", "g", "h", " ", "C", "o", "u", "r", "t", " ", "o", "f", " ", "C", "a", "l", "c", "u", "t", "t", "a" >>
ValHighCourtOfMadras == << "H", "i", "g", "h", " ", "C", "o", "u", "r", "t", " ", "o", "f", " ", "M", "a", "d", "r", "a", "s" >>
ValCriminalAppeal == << "C", "r", "i", "m", "i", "n", "a", "l", " ", "A", "p", "p", "e", "a", "l" >>
ValCivilAppeal == << "C", "i", "v", "i", "l", " ", "A", "p", "p", "e", "a", "l" >>
ValWritPetition == << "W", "r", "i", "t", " ", "P", "e", "t", "i", "t", "i", "o", "n" >>
ValSpecialLeavePetition == << "S", "p", "e", "c", "i", "a", "l", " ", "L", "e", "a", "v", "e", " ", "P", "e", "t", "i", "t", "i", "o", "n" >>
ValPil == << "P", "I", "L" >>
ValCivil == << "C", "i", "v", "i", "l" >>
ValConstitutionBench == << "C", "o", "n", "s", "t", "i", "t", "u", "t", "i", "o", "n", " ", "B", "e", "n", "c", "h" >>
ValDivisionBench == << "D", "i", "v", "i", "s", "i", "o", "n", " ", "B", "e", "n", "c", "h" >>
QueryShort == << "A", " ", "v", " ", "B" >>
QueryCriminalAppeal == << "c", "r", "i", "m", "i", "n", "a", "l", " ", "a", "p", "p", "e", "a", "l", " ", "1", "9", "9", "9", " ", "h", "i", "g", "h", " ", "c", "o", "u", "r", "t", " ", "o", "f", " ", "d", "e", "l", "h", "i" >>

\* the literal pat matches s at position i, ignoring case
MatchAtCI(s, i, pat) ==
  /\ i + Len(pat) - 1 <= Len(s)
  /\ \A k \in 1..Len(pat) : LowerChar(s[i + k - 1]) = LowerChar(pat[k])

MatchesCI(s, pat) == \E i \in 1..Len(s) : MatchAtCI(s, i, pat)

FirstMatchCI(s, pat) ==
  CHOOSE i \in 1..Len(s) :
    MatchAtCI(s, i, pat) /\ \A j \in 1..(i - 1) : ~MatchAtCI(s, j, pat)

\* \b at the gap before position i
WordBoundary(s, i) ==
  LET before == i > 1 /\ IsWordChar(s[i - 1])
      after == i <= Len(s) /\ IsWordChar(s[i])
  IN before # after

\* /\b(19\d{2}|20\d{2})\b/ matches at position i
YearAt(s, i) ==
  /\ i + 3 <= Len(s)
  /\ s[i] \in { "1", "2" }
  /\ s[i + 1] = (IF s[i] = "1" THEN "9" ELSE "0")
  /\ IsDigit(s[i + 2])
  /\ IsDigit(s[i + 3])
  /\ WordBoundary(s, i)
  /\ WordBoundary(s, i + 4)

HasYear(s) == \E i \in 1..Len(s) : YearAt(s, i)
\* parseInt(yearMatch[1])
YearOf(s) ==
  LET i == CHOOSE k \in 1..Len(s) : YearAt(s, k) /\ \A j \in 1..(k - 1) : ~YearAt(s, j)
  IN DigitsValue(SubSeq(s, i, i + 3))

\* the end of the run [a-z\s]+ (case ignored) starting at position j
IsLetter(c) == LowerChar(c) \in Range(LowerSeq)
RECURSIVE LetterRunEnd(_, _)
LetterRunEnd(s, j) ==
  IF j > Len(s) \/ ~(IsLetter(s[j]) \/ IsSpace(s[j])) THEN j
  ELSE LetterRunEnd(s, j + 1)

\* /high court of ([a-z\s]+)/i
HighCourtAt(s, i) ==
  /\ MatchAtCI(s, i, PatHighCourtOf)
  /\ LetterRunEnd(s, i + Len(PatHighCourtOf)) > i + Len(PatHighCourtOf)
HasHighCourt(s) == \E i \in 1..Len(s) : HighCourtAt(s, i)
\* match[0]
HighCourtMatch(s) ==
  LET i == CHOOSE k \in 1..Len(s) :
             HighCourtAt(s, k) /\ \A j \in 1..(k - 1) : ~HighCourtAt(s, j)
  IN SubSeq(s, i, LetterRunEnd(s, i + Len(PatHighCourtOf)) - 1)

\* /\bpil\b/i
PilAt(s, i) ==
  MatchAtCI(s, i, PatPil) /\ WordBoundary(s, i) /\ WordBoundary(s, i + Len(PatPil))

NoFilters == [ k \in {} |-> 0 ]

\* the court rules consulted from the last to the first
CourtFilterLastWins(q) ==
  IF MatchesCI(q, PatMadrasHighCourt) THEN [ court |-> ValHighCourtOfMadras ]
  ELSE IF MatchesCI(q, PatCalcuttaHighCourt) THEN [ court |-> ValHighCourtOfCalcutta ]
  ELSE IF MatchesCI(q, PatBombayHighCourt) THEN [ court |-> ValHighCourtOfBombay ]
  ELSE IF MatchesCI(q, PatDelhiHighCourt) THEN [ court |-> StrHighCourtOfDelhi ]
  ELSE IF HasHighCourt(q) THEN [ court |-> HighCourtMatch(q) ]
  ELSE IF MatchesCI(q, PatSupremeCourt) THEN [ court |-> StrSupremeCourtOfIndia ]
  ELSE NoFilters

\* the court rules, first match wins
CourtFilter(q) ==
  IF MatchesCI(q, PatSupremeCourt) THEN [ court |-> StrSupremeCourtOfIndia ]
  ELSE IF HasHighCourt(q) THEN [ court |-> HighCourtMatch(q) ]
  ELSE IF MatchesCI(q, PatDelhiHighCourt) THEN [ court |-> StrHighCourtOfDelhi ]
  ELSE IF MatchesCI(q, PatBombayHighCourt) THEN [ court |-> ValHighCourtOfBombay ]
  ELSE IF MatchesCI(q, PatCalcuttaHighCourt) THEN [ court |-> ValHighCourtOfCalcutta ]
  ELSE IF MatchesCI(q, PatMadrasHighCourt) THEN [ court |-> ValHighCourtOfMadras ]
  ELSE NoFilters

\* the case type rules, first match wins
CaseTypeFilter(q) ==
  IF MatchesCI(q, PatCriminalAppeal) THEN [ case_type |-> ValCriminalAppeal ]
  ELSE IF MatchesCI(q, PatCivilAppeal) THEN [ case_type |-> ValCivilAppeal ]
  ELSE IF MatchesCI(q, PatWritPetition) THEN [ case_type |-> ValWritPetition ]
  ELSE IF MatchesCI(q, PatSpecialLeavePetition) \/ MatchesCI(q, PatSlp)
  THEN [ case_type |-> ValSpecialLeavePetition ]
  ELSE IF (\E i \in 1..Len(q) : PilAt(q, i)) \/ MatchesCI(q, PatPublicInterestLitigation)
  THEN [ case_type |-> ValPil ]
  ELSE IF MatchesCI(q, PatBail) THEN [ case_type |-> StrBailApplication ]
  ELSE NoFilters

JurisdictionFilter(q) ==
  IF MatchesCI(q, PatCriminal) THEN [ jurisdiction |-> StrCriminal ]
  ELSE IF MatchesCI(q, PatCivil) THEN [ jurisdiction |-> ValCivil ]
  ELSE NoFilters

BenchFilter(q) ==
  IF MatchesCI(q, PatConstitutionBench) THEN [ bench_type |-> ValConstitutionBench ]
  ELSE IF MatchesCI(q, PatDivisionBench) THEN [ bench_type |-> ValDivisionBench ]
  ELSE NoFilters

YearFilter(q) == IF HasYear(q) THEN [ year |-> YearOf(q) ] ELSE NoFilters

\* String.prototype.replace(string, ''): the first occurrence, case kept
MatchAt(s, i, pat) ==
  /\ i + Len(pat) - 1 <= Len(s)
  /\ SubSeq(s, i, i + Len(pat) - 1) = pat
RemoveFirst(s, pat) ==
  IF \E i \in 1..Len(s) : MatchAt(s, i, pat)
  THEN LET i == CHOOSE k \in 1..Len(s) :
                  MatchAt(s, k, pat) /\ \A j \in 1..(k - 1) : ~MatchAt(s, j, pat)
       IN SubSeq(s, 1, i - 1) \o SubSeq(s, i + Len(pat), Len(s))
  ELSE s

\* String.prototype.replace(new RegExp(pat, 'gi'), '') for a pattern of
\* letters and spaces: every occurrence, ignoring case
RECURSIVE RemoveAllCI(_, _)
RemoveAllCI(s, pat) ==
  IF Len(s) = 0 \/ Len(pat) = 0 THEN s
  ELSE IF MatchAtCI(s, 1, pat)
  THEN RemoveAllCI(SubSeq(s, Len(pat) + 1, Len(s)), pat)
  ELSE << Head(s) >> \o RemoveAllCI(Tail(s), pat)

\* String.prototype.trim
RECURSIVE TrimRight(_)
TrimRight(s) ==
  IF Len(s) > 0 /\ IsSpace(s[Len(s)]) THEN TrimRight(SubSeq(s, 1, Len(s) - 1)) ELSE s
Trim(s) == TrimRight(SkipSpaces(s))

MinFulltextLen == 5

\* the query with the year and the court and case type values removed
CleanedQuery(q, found) ==
  LET noYear == IF "year" \in DOMAIN found THEN RemoveFirst(q, NatToStr(found.year))
                ELSE q
      noCourt == IF "court" \in DOMAIN found THEN RemoveAllCI(noYear, found.court)
                 ELSE noYear
      noType == IF "case_type" \in DOMAIN found THEN RemoveAllCI(noCourt, found.case_type)
                ELSE noCourt
  IN Trim(noType)

extractFiltersFromQuery(q) ==
  LET found == YearFilter(q) @@ CourtFilter(q) @@ CaseTypeFilter(q)
               @@ JurisdictionFilter(q) @@ BenchFilter(q)
      cleanedQuery == CleanedQuery(q, found)
  IN IF Len(cleanedQuery) > MinFulltextLen
     THEN found @@ [ fulltext |-> cleanedQuery ]
     ELSE found

\* ------------------------------------------------------------------------
\* A direct call of one provider's rerank
\* ------------------------------------------------------------------------
Doc(id) == [ docId |-> id ]
DocPool == { Doc("d1"), Doc("d2") }
MaxDocs == 2

Providers == { "gemini", "cohere", "openai" }

PCall(provider_, documents, pc, failed, result) ==
  [ provider |-> provider_, documents |-> documents, pc |-> pc,
    failed |-> failed, result |-> result, resp |-> [ kind |-> "none" ] ]
NoPCall == PCall("none", << >>, "off", FALSE, Returned(<< >>))

\* provider.rerank(query, documents) against any answer of the scoring
\* service; failed records that the external call itself failed
ProviderCall ==
  /\ pcall.pc = "called"
  /\ \E resp \in Responses(pcall.provider, Len(pcall.documents), ScoreVals) :
       pcall' = [ pcall EXCEPT
         !.pc = "done",
         !.resp = resp,
         !.failed = (Len(pcall.documents) > 0 /\ resp.kind # "ok"),
         !.result = ProviderRerank(pcall.provider, pcall.documents, resp) ]
  /\ UNCHANGED << again, search, svcVars, fuseVars >>

\* ------------------------------------------------------------------------
\* HybridSearchManager.search as a process: the two source calls run side by
\* side, then the fusion, then the enrichment lookups one by one
\* ------------------------------------------------------------------------
Branch(st, source, result) == [ st |-> st, source |-> source, result |-> result ]
NotCalled == [ kind |-> "notcalled" ]
IdleBranch == Branch("idle", NotCalled, Returned(<< >>))

\* what vectorDbInstance.performSimilaritySearch can do: resolve with
\* sources, resolve without them, or reject with an Error or with no reason
VectorOk(sources) == [ kind |-> "ok", sources |-> sources ]
VectorOutcomes(lists) ==
  { VectorOk(l) : l \in lists }
  \cup { [ kind |-> "nosources" ],
         [ kind |-> "rejects", reason |-> "Error" ],
         [ kind |-> "rejects", reason |-> "undefined" ] }

\* what LegalJudgmentMetadata.search can do: resolve with rows, resolve with
\* [] after a failed query, or reject with an Error
MetadataOk(rows) == [ kind |-> "ok", sources |-> rows ]
MetadataOutcomes(lists) ==
  { MetadataOk(l) : l \in lists }
  \cup { [ kind |-> "queryError" ],
         [ kind |-> "rejects", reason |-> "Error" ] }

\* catch (error) { console.error(..., error.message); return []; }
\* reading .message of undefined raises a TypeError inside the handler
CatchReturnEmpty(reason) ==
  IF reason = "undefined" THEN Thrown ELSE Returned(<< >>)

\* performVectorSearch once the source has settled: results?.sources || []
performVectorSearch(outcome) ==
  IF outcome.kind = "ok" THEN Returned(outcome.sources)
  ELSE IF outcome.kind = "rejects" THEN CatchReturnEmpty(outcome.reason)
  ELSE Returned(<< >>)

\* "if (filters.k) searchParams.k = filters.k": a filter with a value
HasValue(filters, k) ==
  /\ k \in DOMAIN filters
  /\ IF k = "year" THEN filters[k] # 0 ELSE filters[k] # NoStr

\* the searchParams performMetadataSearch hands to LegalJudgmentMetadata.search
ForwardedKeys ==
  { "court", "year", "case_type", "jurisdiction", "judge", "citation", "keywords",
    "bench_type", "fulltext" }
searchParams(filters, limit) ==
  [ k \in { f \in ForwardedKeys : HasValue(filters, f) } |-> filters[k] ]
  @@ [ workspace_id |-> 1, limit |-> limit ]

\* the parameters LegalJudgmentMetadata.search reads, and the one it builds
\* the full-text clause (searchable_text @@ plainto_tsquery) from
ConsumedKeys ==
  { "workspace_id", "court", "year", "year_from", "year_to", "case_type", "judge",
    "citation", "case_id", "cnr", "jurisdiction", "keywords", "text_search",
    "limit", "offset" }
FullTextKey == "text_search"
\* the parameters that constrain the store's query
StoreConstraints(params) == DOMAIN params \cap ConsumedKeys

\* performMetadataSearch once the store has settled
performMetadataSearch(outcome) ==
  IF outcome.kind = "ok" THEN Returned(outcome.sources)
  ELSE IF outcome.kind = "rejects" THEN CatchReturnEmpty(outcome.reason)
  ELSE Returned(<< >>)

\* the arguments of search; hasQuery and hasWorkspace are FALSE when the
\* caller left them undefined; debug is DEBUG_HYBRID_SEARCH === "true"
SearchInput(hasQuery, q, hasWorkspace, filters, vectorDbInstance, topN, rerankOptions, debug) ==
  [ hasQuery |-> hasQuery, query |-> q, hasWorkspace |-> hasWorkspace,
    filters |-> filters, vectorDbInstance |-> vectorDbInstance, topN |-> topN,
    rerankOptions |-> rerankOptions, debug |-> debug ]

NoMetadataMap == [ k \in {} |-> 0 ]

IdleSearch ==
  [ pc |-> "off",
    input |-> SearchInput(TRUE, NoStr, TRUE, NoFilters, FALSE, 0, NoFilters, FALSE),
    enhancedFilters |-> NoFilters,
    vector |-> IdleBranch, metadata |-> IdleBranch, fallback |-> IdleBranch,
    vectorCalls |-> 0, metadataCalls |-> 0, fellBack |-> FALSE,
    first |-> "none", searchParams |-> NoFilters,
    enrichIdx |-> 0, metadataMap |-> NoMetadataMap, lookups |-> << >>,
    out |-> Returned(<< >>) ]

\* first remembers which of the two source calls settled first
SettledFirst(s, branch) == IF s.first = "none" THEN branch ELSE s.first

\* performVectorSearch up to its await: without an instance it returns [],
\* and without a workspace reading workspace.slug throws into its own catch
VectorReachable(in) == in.vectorDbInstance /\ in.hasWorkspace
LaunchVector(in) ==
  IF VectorReachable(in) THEN Branch("pending", NotCalled, Returned(<< >>))
  ELSE Branch("settled", NotCalled, Returned(<< >>))

\* the catch of search: performVectorSearch again, with topN
SearchCatch(s) ==
  [ s EXCEPT !.pc = "fallback", !.fellBack = TRUE,
             !.fallback = LaunchVector(s.input),
             !.vectorCalls = @ + (IF VectorReachable(s.input) THEN 1 ELSE 0) ]

\* Step 1: the explicit filters, or the ones read out of the query
EnhancedFilters(in) ==
  IF DOMAIN in.filters = {} THEN extractFiltersFromQuery(in.query) ELSE in.filters

\* search from its call to the await of Promise.all
SearchStart ==
  /\ search.pc = "ready"
  /\ LET in == search.input
         launched == [ search EXCEPT
           !.pc = "searching",
           !.enhancedFilters = EnhancedFilters(in),
           !.vector = LaunchVector(in),
           !.vectorCalls = @ + (IF VectorReachable(in) THEN 1 ELSE 0) ]
     IN search' =
          IF DOMAIN in.filters = {} /\ (~in.hasQuery \/ in.query = NullQuery)
          THEN SearchCatch(search)       \* query.toLowerCase() throws
          ELSE IF DOMAIN launched.enhancedFilters = {}
          THEN [ launched EXCEPT
                   !.metadata = Branch("settled", NotCalled, Returned(<< >>)) ]
          ELSE IF ~in.hasWorkspace
          THEN SearchCatch(launched)     \* workspace.id throws
          ELSE [ launched EXCEPT
                   !.metadata = Branch("pending", NotCalled, Returned(<< >>)),
                   !.searchParams = searchParams(launched.enhancedFilters, in.topN * 2),
                   !.metadataCalls = @ + 1 ]
  /\ UNCHANGED << again, svcVars, pcall, fuseVars >>

\* vectorDbInstance.performSimilaritySearch settles
VectorSettle(lists) ==
  /\ search.pc = "searching"
  /\ search.vector.st = "pending"
  /\ \E outcome \in VectorOutcomes(lists) :
       search' = [ search EXCEPT
         !.first = SettledFirst(search, "vector"),
         !.vector = Branch("settled", outcome, performVectorSearch(outcome)) ]
  /\ UNCHANGED << again, svcVars, pcall, fuseVars >>

\* LegalJudgmentMetadata.search settles
MetadataSettle(lists) ==
  /\ search.pc = "searching"
  /\ search.metadata.st = "pending"
  /\ \E outcome \in MetadataOutcomes(lists) :
       search' = [ search EXCEPT
         !.first = SettledFirst(search, "metadata"),
         !.metadata = Branch("settled", outcome, performMetadataSearch(outcome)) ]
  /\ UNCHANGED << again, svcVars, pcall, fuseVars >>

\* the options search hands to HybridReranker.rerank
SearchRerankOptions(in) ==
  in.rerankOptions @@
  [ semanticWeight |-> 72, rerankerWeight |-> 36, metadataWeight |-> 12,
    maxResults |-> in.topN, useHostedReranker |-> TRUE ]

\* the fusion started as soon as the vector branch has settled
SearchJoinEarly ==
  /\ search.pc = "searching"
  /\ search.vector.st = "settled"
  /\ IF search.vector.result.threw
     THEN /\ search' = SearchCatch(search)
          /\ UNCHANGED fuseVars
     ELSE /\ search' = [ search EXCEPT !.pc = "fusing" ]
          /\ vectorResults' = search.vector.result.value
          /\ metadataResults' = search.metadata.result.value
          /\ query' = search.input.query
          /\ options' = SearchRerankOptions(search.input)
          /\ fpc' = "ready"
          /\ documentMap' = << >>
          /\ fuseOut' = << >>
  /\ UNCHANGED << again, svcVars, pcall >>

\* Promise.all settles: it rejects as soon as one branch rejects, and
\* otherwise search calls HybridReranker.rerank with both lists
SearchJoin ==
  /\ search.pc = "searching"
  /\ search.vector.st = "settled"
  /\ IF search.vector.result.threw
     THEN /\ search' = SearchCatch(search)
          /\ UNCHANGED fuseVars
     ELSE /\ search.metadata.st = "settled"
          /\ search' = [ search EXCEPT !.pc = "fusing" ]
          /\ vectorResults' = search.vector.result.value
          /\ metadataResults' = search.metadata.result.value
          /\ query' = search.input.query
          /\ options' = SearchRerankOptions(search.input)
          /\ fpc' = "ready"
          /\ documentMap' = << >>
          /\ fuseOut' = << >>
  /\ UNCHANGED << again, svcVars, pcall >>

\* the store behind LegalJudgmentMetadata.get
StoreRows == MetaPool
HasRow(docId) == \E row \in StoreRows : row.doc_id = docId
RowOf(docId) == CHOOSE row \in StoreRows : row.doc_id = docId

\* LegalJudgmentMetadata.get(docId): the row, null, or a rejection
GetOutcomes(docId) ==
  { [ kind |-> "null" ], [ kind |-> "rejects" ] }
  \cup (IF HasRow(docId) THEN { [ kind |-> "row", row |-> RowOf(docId) ] } ELSE {})

\* the record with the display fields court, year, citation and case_type of
\* its metadata set from the row, and the row attached
Enriched(result, legalMetadata) ==
  [ legalMetadata |-> legalMetadata,
    mdYear |-> legalMetadata.year,
    mdCitation |-> legalMetadata.citation,
    mdCaseType |-> legalMetadata.case_type ]
  @@ [ result EXCEPT !.mdCourt = legalMetadata.court ]

\* a map step that enriches from the store whatever the lookup gave
EnrichOneAnyRow(result, map) ==
  IF HasRow(result.docId) THEN Enriched(result, RowOf(result.docId)) ELSE result

\* results.map(...) of enrichResultsWithMetadata
EnrichOne(result, map) ==
  IF result.docId \in DOMAIN map
  THEN Enriched(result, map[result.docId])
  ELSE result
EnrichAll(results, map) ==
  [ i \in 1..Len(results) |-> EnrichOne(results[i], map) ]

\* results.map(r => r.docId).filter(Boolean)
HasDocId(result) == result.docId # NoId
DocIdsOf(results) ==
  LET kept == SelectSeq(results, HasDocId)
  IN [ i \in 1..Len(kept) |-> kept[i].docId ]

\* HybridReranker.explainScores(results, topN) throws on the first result
\* without a combinedScore: r.combinedScore.toFixed(3)
ExplainTopN == 5
explainScoresThrows(results, topN) ==
  \E i \in 1..Min(topN, Len(results)) : "combinedScore" \notin DOMAIN results[i]

\* the end of the try block of search: the optional explanation, then the
\* return
SearchReturn(s, results) ==
  IF s.input.debug /\ explainScoresThrows(results, ExplainTopN)
  THEN SearchCatch(s)
  ELSE [ s EXCEPT !.pc = "done", !.out = Returned(results) ]

\* Step 4 up to the first lookup: workspace.id, then the docIds
EnrichStart ==
  /\ search.pc = "fusing"
  /\ fpc \in { "done", "failed" }
  /\ search' =
       IF ~search.input.hasWorkspace THEN SearchCatch(search)
       ELSE IF Len(DocIdsOf(fuseOut)) = 0
       THEN SearchReturn(search, fuseOut)
       ELSE [ search EXCEPT !.pc = "enriching", !.enrichIdx = 1 ]
  /\ UNCHANGED << again, svcVars, pcall, fuseVars >>

\* one LegalJudgmentMetadata.get settles; after the last one the results
\* are mapped and returned
EnrichLookup ==
  /\ search.pc = "enriching"
  /\ LET docId == DocIdsOf(fuseOut)[search.enrichIdx]
     IN \E outcome \in GetOutcomes(docId) :
          LET map == IF outcome.kind = "row"
                     THEN (docId :> outcome.row) @@ search.metadataMap
                     ELSE search.metadataMap
          IN search' =
               IF search.enrichIdx < Len(DocIdsOf(fuseOut))
               THEN [ search EXCEPT !.enrichIdx = @ + 1, !.metadataMap = map,
                                    !.lookups = Append(@, outcome.kind) ]
               ELSE SearchReturn([ search EXCEPT !.metadataMap = map,
                                    !.lookups = Append(@, outcome.kind) ],
                                 EnrichAll(fuseOut, map))
  /\ UNCHANGED << again, svcVars, pcall, fuseVars >>

\* vectorDbInstance.performSimilaritySearch settles for the fallback call
FallbackSettle(lists) ==
  /\ search.pc = "fallback"
  /\ search.fallback.st = "pending"
  /\ \E outcome \in VectorOutcomes(lists) :
       search' = [ search EXCEPT
         !.fallback = Branch("settled", outcome, performVectorSearch(outcome)) ]
  /\ UNCHANGED << again, svcVars, pcall, fuseVars >>

\* search returns the promise of the fallback performVectorSearch
FallbackReturn ==
  /\ search.pc = "fallback"
  /\ search.fallback.st = "settled"
  /\ search' = [ search EXCEPT !.pc = "done", !.out = search.fallback.result ]
  /\ UNCHANGED << again, svcVars, pcall, fuseVars >>

\* ------------------------------------------------------------------------
\* Initial states and specifications
\* ------------------------------------------------------------------------
NumReqs == 2
Reqs == 1..NumReqs

ServiceOff ==
  /\ provider = "none"
  /\ initialized = FALSE
  /\ constructed = 0
  /\ initEnv = NotInitialized
  /\ lastAvailable = "unasked"
  /\ calls = [ r \in Reqs |-> IdleCall ]

SearchOff == search = IdleSearch /\ again = NoRepeat

FusionOff ==
  /\ vectorResults = << >>
  /\ metadataResults = << >>
  /\ query = NoStr
  /\ options = [ useHostedReranker |-> FALSE ]
  /\ fpc = "off"
  /\ documentMap = << >>
  /\ fuseOut = << >>

\* the providers on their own
ProviderInit ==
  /\ SearchOff
  /\ env \in { Env(FALSE, "unset", FALSE, FALSE, FALSE) }
  /\ ServiceOff
  /\ FusionOff
  /\ pcall \in { PCall(p, d, "called", FALSE, Returned(<< >>)) :
                   p \in Providers, d \in SeqsUpTo(DocPool, MaxDocs) }

ProviderNext == ProviderCall

ProviderSpec == ProviderInit /\ [][ProviderNext]_vars

\* the service shared by concurrent requests while the configuration changes
ConcurrentDocs == { << Doc("d2"), Doc("d1") >> }
ConcurrentVals == { 96 }
BatchSizes == { 1 }

ServiceEnvs ==
  { Env(FALSE, "cohere", TRUE, FALSE, FALSE),
    Env(TRUE, "cohere", TRUE, FALSE, FALSE),
    Env(TRUE, "gemini", FALSE, FALSE, FALSE),
    Env(TRUE, "openai", FALSE, FALSE, TRUE) }

ServiceInit ==
  /\ SearchOff
  /\ env \in ServiceEnvs
  /\ ServiceOff
  /\ FusionOff
  /\ pcall = NoPCall

ServiceNext ==
  \/ IsAvailable
  \/ GetConfig
  \/ EnvChange(ServiceEnvs)
  \/ \E r \in Reqs, d \in ConcurrentDocs : Rerank(r, d)
  \/ \E r \in Reqs : RerankSettle(r, ConcurrentVals)
  \/ \E r \in Reqs, d \in ConcurrentDocs, b \in BatchSizes : RerankBatch(r, d, b)
  \/ \E r \in Reqs : BatchStep(r, ConcurrentVals)

ServiceSpec == ServiceInit /\ [][ServiceNext]_vars

\* the fusion over every pair of candidate lists
FusionEnvs ==
  { Env(FALSE, "cohere", TRUE, FALSE, FALSE),
    Env(TRUE, "cohere", TRUE, FALSE, FALSE) }
FusionVals == { 0 - 36, 0, 150 }

FusionInit ==
  /\ SearchOff
  /\ env \in FusionEnvs
  /\ ServiceOff
  /\ pcall = NoPCall
  /\ vectorResults \in SeqsUpTo(VectorPool, MaxVec)
  /\ metadataResults \in SeqsUpTo(MetaPool, MaxMeta)
  /\ query \in QueryPool
  /\ options \in OptionPool
  /\ fpc = "ready"
  /\ documentMap = << >>
  /\ fuseOut = << >>

FusionNext ==
  \/ FuseStart
  \/ FuseResume(FusionVals)

FusionSpec == FusionInit /\ [][FusionNext]_vars

\* the fusion over vector hits that get their title and court from a
\* metadata row of the same document
BoostVec ==
  { VHit("d1", NoId, 108, 0, StrAvB, NoStr, StrSupremeCourtOfIndia),
    VHit(NoId, "d2", 0, 6, NoStr, NoStr, NoStr) }
BoostOptions ==
  { opts \in OptionPool :
      /\ Opt(opts, "semanticWeight", DefaultSemanticWeight) >= 0
      /\ Opt(opts, "rerankerWeight", DefaultRerankerWeight) >= 0
      /\ Opt(opts, "metadataWeight", DefaultMetadataWeight) >= 0 }

BoostInit ==
  /\ SearchOff
  /\ env \in FusionEnvs
  /\ ServiceOff
  /\ pcall = NoPCall
  /\ vectorResults \in SeqsUpTo(BoostVec, MaxVec)
  /\ metadataResults \in SeqsUpTo(MetaPool, MaxMeta)
  /\ query \in QueryPool
  /\ options \in BoostOptions
  /\ fpc = "ready"
  /\ documentMap = << >>
  /\ fuseOut = << >>

BoostNext ==
  \/ FuseStart
  \/ FuseResume(FusionVals)

BoostSpec == BoostInit /\ [][BoostNext]_vars

\* the fusion called twice while the configuration changes
RepeatOptions == { OptSearch, [ useHostedReranker |-> FALSE ],
                   [ diversityFactor |-> 180 ] @@ OptSearch }
RepeatVec == { << >>, << VHit("d1", NoId, 108, 0, StrAvB, NoStr, NoStr) >> }
RepeatMeta ==
  { << >>,
    << MRow("d2", StrAvBPlain, StrCitation, StrSupremeCourtOfIndia, 2023,
            StrBailApplication, StrCriminal, NoStr),
       MRow("d1", StrAvB, NoStr, StrSupremeCourtOfIndia, 2024, NoStr, NoStr, NoStr) >> }

RepeatInit ==
  /\ search = IdleSearch
  /\ env \in FusionEnvs
  /\ ServiceOff
  /\ pcall = NoPCall
  /\ vectorResults \in RepeatVec
  /\ metadataResults \in RepeatMeta
  /\ query \in QueryPool
  /\ options \in RepeatOptions
  /\ fpc = "ready"
  /\ documentMap = << >>
  /\ fuseOut = << >>
  /\ again = FirstCall(vectorResults, metadataResults)

RepeatNext ==
  \/ FuseStart
  \/ RepeatResume(FusionVals)
  \/ FuseAgain
  \/ EnvChange(FusionEnvs)

RepeatSpec == RepeatInit /\ [][RepeatNext]_vars

\* one request and one fusion under every configuration
ConfigVec == { << >>, << VHit("d1", NoId, 108, 0, StrAvB, NoStr, NoStr) >> }
ConfigMeta ==
  { << >>,
    << MRow("d2", StrAvBPlain, StrCitation, StrSupremeCourtOfIndia, 2023,
            StrBailApplication, StrCriminal, NoStr) >> }
ConfigOptions == { OptSearch, [ useHostedReranker |-> FALSE ] }
ConfigDocs == { << Doc("d1") >>, << Doc("d2"), Doc("d1") >> }
ConfigBatchSizes == { NoBatchSize, 1 }

ConfigInit ==
  /\ SearchOff
  /\ env \in EnvPool
  /\ ServiceOff
  /\ pcall = NoPCall
  /\ vectorResults \in ConfigVec
  /\ metadataResults \in ConfigMeta
  /\ query = QueryBail
  /\ options \in ConfigOptions
  /\ fpc = "ready"
  /\ documentMap = << >>
  /\ fuseOut = << >>

ConfigNext ==
  \/ IsAvailable
  \/ \E d \in ConfigDocs : Rerank(1, d)
  \/ RerankSettle(1, ConcurrentVals)
  \/ \E d \in ConfigDocs, b \in ConfigBatchSizes : RerankBatch(1, d, b)
  \/ BatchStep(1, ConcurrentVals)
  \/ FuseStart
  \/ FuseResume(ConcurrentVals)

ConfigSpec == ConfigInit /\ [][ConfigNext]_vars

\* rerankBatch of the service over lists longer than one chunk, the scoring
\* service free to score each document high or low
BatchEnvs ==
  { Env(TRUE, "cohere", TRUE, FALSE, FALSE),
    Env(TRUE, "gemini", FALSE, TRUE, FALSE),
    Env(TRUE, "openai", FALSE, FALSE, TRUE) }
BatchDocs ==
  { << Doc("d1"), Doc("d2") >>,
    << Doc("d1"), Doc("d2"), Doc("d3") >> }
BatchVals == { 36, 96 }
BatchChunkSizes == { NoBatchSize, 2 }

BatchInit ==
  /\ SearchOff
  /\ env \in BatchEnvs
  /\ ServiceOff
  /\ FusionOff
  /\ pcall = NoPCall

BatchNext ==
  \/ \E d \in BatchDocs, b \in BatchChunkSizes : RerankBatch(1, d, b)
  \/ BatchStep(1, BatchVals)

BatchSpec == BatchInit /\ [][BatchNext]_vars

\* extractFiltersFromQuery applied to queries put together from phrases
StrYear2019 == << "2", "0", "1", "9" >>
StrRam == << "r", "a", "m" >>
StrPilUpper == << "P", "I", "L" >>
PhrasePool ==
  { PatSupremeCourt, StrSupremeCourtOfIndia, StrHighCourtOfDelhi, PatDelhiHighCourt,
    PatCriminalAppeal, PatCivilAppeal, PatBail, StrBailApplication, StrPilUpper,
    StrYear2019, PatConstitutionBench, PatDivisionBench, StrRam }
MaxPhrases == 2

RECURSIVE JoinPhrases(_)
JoinPhrases(phrases) ==
  IF Len(phrases) = 0 THEN NoStr
  ELSE IF Len(phrases) = 1 THEN phrases[1]
  ELSE phrases[1] \o << " " >> \o JoinPhrases(Tail(phrases))

ExtractQueries == { JoinPhrases(ps) : ps \in SeqsUpTo(PhrasePool, MaxPhrases) }

\* one call of extractFiltersFromQuery; the query is search.input.query and
\* the returned filters are kept in search.enhancedFilters
ExtractFilters ==
  /\ search.pc = "ready"
  /\ search' = [ search EXCEPT
       !.pc = "extracted",
       !.enhancedFilters = extractFiltersFromQuery(search.input.query) ]
  /\ UNCHANGED << again, svcVars, pcall, fuseVars >>

ExtractInit ==
  /\ env \in { Env(FALSE, "unset", FALSE, FALSE, FALSE) }
  /\ ServiceOff
  /\ FusionOff
  /\ pcall = NoPCall
  /\ again = NoRepeat
  /\ search \in { [ IdleSearch EXCEPT
                       !.pc = "ready",
                       !.input = SearchInput(TRUE, q, TRUE, NoFilters, FALSE, 0,
                                             NoFilters, FALSE) ] :
                    q \in ExtractQueries }

ExtractNext == ExtractFilters

ExtractSpec == ExtractInit /\ [][ExtractNext]_vars

\* one search over every input and every behaviour of the two sources, the
\* hosted reranker and the enrichment lookups
SearchEnvs ==
  { Env(FALSE, "cohere", TRUE, FALSE, FALSE),
    Env(TRUE, "cohere", TRUE, FALSE, FALSE) }
SearchVals == { 96 }
SearchVectorLists ==
  { << >>,
    << VHit("d1", NoId, 108, 0, StrAvB, NoStr, NoStr) >>,
    << VHit("d1", NoId, 108, 0, StrAvB, NoStr, NoStr),
       VHit(NoId, "d3", 0, 150, StrStateVRam, NoStr, StrHighCourtOfDelhi) >> }
SearchMetadataLists ==
  { << >>,
    << MRow("d1", StrAvB, NoStr, StrSupremeCourtOfIndia, 2024, NoStr, NoStr, NoStr) >>,
    << MRow("d2", StrAvBPlain, StrCitation, StrSupremeCourtOfIndia, 2023,
            StrBailApplication, StrCriminal, NoStr),
       MRow("d1", StrAvB, NoStr, StrSupremeCourtOfIndia, 2024, NoStr, NoStr, NoStr) >> }
SearchInputs ==
  { SearchInput(TRUE, QueryScenario, TRUE, NoFilters, TRUE, 2, NoFilters, FALSE),
    SearchInput(TRUE, QueryShort, TRUE, NoFilters, TRUE, 2, NoFilters, FALSE),
    SearchInput(TRUE, QueryBail, TRUE, [ court |-> StrSupremeCourtOfIndia ], TRUE, 1,
                NoFilters, FALSE),
    SearchInput(FALSE, NoStr, TRUE, NoFilters, TRUE, 2, NoFilters, FALSE),
    SearchInput(TRUE, QueryScenario, FALSE, NoFilters, TRUE, 2, NoFilters, FALSE),
    SearchInput(TRUE, QueryShort, FALSE, NoFilters, TRUE, 2, NoFilters, FALSE),
    SearchInput(TRUE, QueryScenario, TRUE, NoFilters, FALSE, 2, NoFilters, FALSE),
    SearchInput(TRUE, QueryScenario, TRUE, NoFilters, TRUE, 2,
                [ useHostedReranker |-> FALSE ], FALSE),
    SearchInput(TRUE, NullQuery, TRUE, [ court |-> StrSupremeCourtOfIndia ], TRUE, 1,
                NoFilters, FALSE),
    SearchInput(TRUE, NullQuery, TRUE, [ court |-> StrSupremeCourtOfIndia ], TRUE, 1,
                NoFilters, TRUE),
    SearchInput(TRUE, QueryScenario, TRUE, NoFilters, TRUE, 2, NoFilters, TRUE),
    SearchInput(TRUE, QueryShort, TRUE, [ court |-> NoStr ], TRUE, 2, NoFilters, FALSE) }

SearchInit ==
  /\ env \in SearchEnvs
  /\ ServiceOff
  /\ FusionOff
  /\ pcall = NoPCall
  /\ search \in { [ IdleSearch EXCEPT !.pc = "ready", !.input = in ] : in \in SearchInputs }
  /\ again = NoRepeat

SearchNext ==
  \/ SearchStart
  \/ VectorSettle(SearchVectorLists)
  \/ MetadataSettle(SearchMetadataLists)
  \/ SearchJoin
  \/ FuseStart
  \/ FuseResume(SearchVals)
  \/ EnrichStart
  \/ EnrichLookup
  \/ FallbackSettle(SearchVectorLists)
  \/ FallbackReturn

SearchSpec == SearchInit /\ [][SearchNext]_vars

\* ------------------------------------------------------------------------
\* Properties
\* ------------------------------------------------------------------------
Indices(seq) == 1..Len(seq)

\* the ids the two sources delivered
VectorIds ==
  { OrId(vectorResults[i].id, vectorResults[i].docId) : i \in Indices(vectorResults) }
    \ { NoId }
MetadataIds ==
  { metadataResults[i].doc_id : i \in Indices(metadataResults) } \ { NoId }

Merged == fpc \in { "awaiting", "done" }

\* C1: every candidate the fusion returns has 0 <= combinedScore <= 1, also
\* for a single candidate, a diversityFactor above 1, a negative weight or a
\* negative reranker score.
C1_CombinedScoreInUnitInterval ==
  fpc = "done" =>
    \A i \in Indices(fuseOut) :
      0 <= fuseOut[i].combinedScore /\ fuseOut[i].combinedScore <= Full

\* C2: the list the fusion returns is sorted non-increasing by the final
\* (diversity-adjusted) combinedScore, for every diversityFactor.
C2_SortedNonIncreasing ==
  fpc = "done" =>
    \A i \in 1..(Len(fuseOut) - 1) :
      fuseOut[i].combinedScore >= fuseOut[i + 1].combinedScore

\* a fusion of three candidates whose diversity pass lowered a score and
\* moved a candidate
C2_Witness ==
  /\ fpc = "done"
  /\ Len(fuseOut) = 3
  /\ Opt(options, "diversityFactor", DefaultDiversityFactor) > 0
  /\ fuseOut[1].combinedScore > fuseOut[3].combinedScore
  /\ fuseOut # SortByCombinedScore(
                 [ i \in Indices(documentMap) |->
                     CHOOSE d \in Range(fuseOut) : d.docId = documentMap[i].docId ])

\* C3: after the merge a candidate is hybrid exactly when its id is in both
\* lists; an id in the vector list only stays vector, an id in the metadata
\* list only stays metadata, also when an id repeats inside one list.
C3_SourceTags ==
  Merged =>
    \A i \in Indices(documentMap) :
      LET d == documentMap[i]
      IN /\ d.source = "hybrid" <=> (d.docId \in VectorIds /\ d.docId \in MetadataIds)
         /\ (d.docId \in VectorIds /\ d.docId \notin MetadataIds) => d.source = "vector"
         /\ (d.docId \notin VectorIds /\ d.docId \in MetadataIds) => d.source = "metadata"

\* C4: the fusion output holds at most one candidate per id and only ids of
\* the input lists; entries without an id are dropped; an id of both lists
\* gives one candidate whose vectorScore is the vector source's score, and a
\* metadata-only id gives a candidate with vectorScore 0.
OnePerId(docs) ==
  \A i, j \in Indices(docs) : docs[i].docId = docs[j].docId => i = j
C4_Candidate(d) ==
  /\ d.docId # NoId
  /\ d.docId \in VectorIds \cup MetadataIds
  /\ d.docId \in VectorIds =>
       \E k \in Indices(vectorResults) :
         /\ OrId(vectorResults[k].id, vectorResults[k].docId) = d.docId
         /\ d.vectorScore = OrNum(vectorResults[k].score, vectorResults[k].similarity)
  /\ d.docId \notin VectorIds => d.vectorScore = 0
C4_OneCandidatePerId ==
  /\ Merged =>
       /\ OnePerId(documentMap)
       /\ { documentMap[i].docId : i \in Indices(documentMap) }
            = VectorIds \cup MetadataIds
       /\ \A i \in Indices(documentMap) : C4_Candidate(documentMap[i])
  /\ fpc = "done" =>
       /\ OnePerId(fuseOut)
       /\ \A i \in Indices(fuseOut) : C4_Candidate(fuseOut[i])

\* a fusion whose two lists each held an entry without an id next to the
\* same id, returned as one hybrid candidate
C4_Witness ==
  /\ fpc = "done"
  /\ \E i \in Indices(vectorResults) :
       OrId(vectorResults[i].id, vectorResults[i].docId) = NoId
  /\ \E i \in Indices(metadataResults) : metadataResults[i].doc_id = NoId
  /\ Len(fuseOut) = 1
  /\ fuseOut[1].docId \in VectorIds \cap MetadataIds
  /\ fuseOut[1].vectorScore > 0

\* C5: initialized while disabled, enabled without any API key, or with an
\* unknown provider name, the service has no provider, isAvailable() answers
\* false, rerank and rerankBatch return the input documents each with
\* rerankerScore 0.5, and every fused candidate has reranker score 0.5.
Degraded(e) ==
  \/ ~e.enabled
  \/ ~(e.rerankerKey \/ e.geminiKey \/ e.openaiKey)
  \/ LowerName(e.providerName) \notin Providers
C7_ProviderNeverRaises ==
  pcall.pc = "done" =>
    /\ ~pcall.result.threw
    /\ Len(pcall.result.value) = Len(pcall.documents)
    /\ \A d \in DocPool :
         Cardinality({ i \in Indices(pcall.documents) : pcall.documents[i].docId = d.docId })
         = Cardinality({ i \in Indices(pcall.result.value) :
                           pcall.result.value[i].docId = d.docId })
    /\ pcall.failed =>
         \A i \in Indices(pcall.documents) :
           /\ pcall.result.value[i].docId = pcall.documents[i].docId
           /\ pcall.result.value[i].rerankerScore = NeutralScore

\* each provider's external call failed on two documents
C7_Witness ==
  /\ pcall.pc = "done"
  /\ pcall.failed
  /\ pcall.provider = "gemini"
  /\ Len(pcall.result.value) = 2

\* C8: every rerankerScore a provider attaches lies in [0,1], whatever the
\* scoring service returned.
C8_ProviderScoresClamped ==
  pcall.pc = "done" =>
    \A i \in Indices(pcall.result.value) :
      /\ 0 <= pcall.result.value[i].rerankerScore
      /\ pcall.result.value[i].rerankerScore <= One

\* C9: RerankerService.rerank and rerankBatch never throw: a finished call
\* resolved with one entry per input document, each with a rerankerScore,
\* all 0.5 when the provider failed.
C9_ServiceNeverThrows ==
  \A r \in Reqs :
    calls[r].pc = "done" =>
      /\ ~calls[r].result.threw
      /\ Len(calls[r].result.value) = Len(calls[r].documents)
      /\ \A i \in Indices(calls[r].result.value) :
           /\ "rerankerScore" \in DOMAIN calls[r].result.value[i]
           /\ \E k \in Indices(calls[r].documents) :
                calls[r].documents[k].docId = calls[r].result.value[i].docId
      /\ calls[r].failed =>
           \A i \in Indices(calls[r].documents) :
             /\ calls[r].result.value[i].docId = calls[r].documents[i].docId
             /\ calls[r].result.value[i].rerankerScore = NeutralScore

\* a rerank whose provider threw and a rerankBatch whose provider threw on
\* a later chunk, both finished
C9_Witness ==
  /\ calls[1].pc = "done" /\ calls[1].op = "rerank" /\ calls[1].failed
  /\ Len(calls[1].documents) = 2
  /\ calls[2].pc = "done" /\ calls[2].op = "rerankBatch" /\ calls[2].failed
  /\ Len(calls[2].acc) = 1

\* C10: the service is initialized once: at most one provider instance is
\* ever constructed, and once initialized the provider never changes, also
\* when the configuration changes afterwards.
C10_InitializedOnce ==
  /\ [](constructed <= 1)
  /\ [][initialized => (initialized' /\ provider' = provider
                        /\ constructed' = constructed)]_vars

\* two requests finished their calls on a provider constructed under a
\* configuration that has since been changed to another provider
C10_Witness ==
  /\ initialized
  /\ constructed = 1
  /\ env # initEnv.env
  /\ env.enabled
  /\ SelectProvider(env) \notin { "none", provider }
  /\ calls[1].pc = "done"
  /\ calls[2].pc = "done"
  /\ lastAvailable = "yes"

\* what a source call is worth once its failure is read as an empty list
SourceFailed(branch) == branch.source.kind = "rejects"
DeliveredOrEmpty(branch) ==
  IF branch.source.kind = "ok" THEN branch.source.sources ELSE << >>
\* both calls were started side by side and exactly one of them failed
ExactlyOneSourceFailed ==
  /\ search.metadata.st # "idle"
  /\ SourceFailed(search.vector) # SourceFailed(search.metadata)
SearchJoined == search.pc \in { "fusing", "enriching", "done" } /\ ~search.fellBack

\* C6: search never lets an exception reach its caller, whatever the vector
\* source, the metadata source, the hosted reranker and the enrichment
\* lookups do; and when exactly one of the two sources throws or rejects the
\* search goes on with the other one's results and an empty list for the
\* failed one.
C6_SearchNeverRaises ==
  /\ ~search.out.threw
  /\ ExactlyOneSourceFailed =>
       /\ ~search.fellBack
       /\ SearchJoined =>
            /\ vectorResults = DeliveredOrEmpty(search.vector)
            /\ metadataResults = DeliveredOrEmpty(search.metadata)

\* the same with every rejection carrying an Error, and the debug explanation
\* not run on the raw hits of a failed fusion
SourcesRejectWithErrors ==
  \A branch \in { search.vector, search.metadata, search.fallback } :
    SourceFailed(branch) => branch.source.reason = "Error"
ExplanationFails == search.input.debug /\ fpc = "failed"
SearchSurvivesErrors ==
  []((SourcesRejectWithErrors /\ ~ExplanationFails) => C6_SearchNeverRaises)

\* C11: a second call of the fusion with the arguments of the first, and the
\* hosted reranker answering as before, returns the same candidates in the
\* same order with the same scores, also when the configuration changed in
\* between; and the caller's two lists are as they were given.
C11_SecondCallSame ==
  /\ again.call > 0 => again.given = << vectorResults, metadataResults >>
  /\ (again.call = 2 /\ fpc = "done") => fuseOut = again.firstOut

\* the second call has returned after the hosted reranker scored a merged
\* candidate away from the neutral score, and the configuration has changed
C11_Witness ==
  /\ again.call = 2
  /\ fpc = "done"
  /\ again.answer.asked
  /\ initEnv.at = "init"
  /\ env # initEnv.env
  /\ \E i \in Indices(fuseOut) :
       /\ fuseOut[i].source = "hybrid"
       /\ fuseOut[i].hostedRerankerScore # NeutralScore

\* the score a returned candidate had after Step 5, before the diversity pass
PreDiversityScore(result) ==
  ScoreDoc(documentMap[MapIndex(documentMap, result.docId)],
           (result.docId :> result.hostedRerankerScore),
           options, Len(vectorResults), Len(metadataResults)).combinedScore

\* C12: the diversity pass never raises a candidate's combinedScore above the
\* score it had before the pass, whatever that score was, and never leaves it
\* below 0.
C12_DiversityNeverIncreases ==
  fpc = "done" =>
    \A i \in Indices(fuseOut) :
      /\ fuseOut[i].combinedScore <= PreDiversityScore(fuseOut[i])
      /\ fuseOut[i].combinedScore >= 0

\* the metadata-only scenario: no vector result, one metadata record, no
\* provider configured, weights 0.6 / 0.3 / 0.1
ScenarioRow ==
  MRow("d1", StrAvB, NoStr, StrSupremeCourtOfIndia, 2024, NoStr, NoStr, NoStr)
MetadataOnlyScenario ==
  /\ vectorResults = << >>
  /\ metadataResults = << ScenarioRow >>
  /\ query = QueryScenario
  /\ options = OptSearch
  /\ ~env.enabled
  /\ fpc = "done"

\* C13: in the metadata-only scenario the fusion returns exactly one candidate,
\* with source metadata, vectorScore 0, metadataScore between 0.8 and 1.0,
\* reranker score 0.5 and combinedScore = 0.6*0 + 0.3*0.5 + 0.1*metadataScore.
C13_MetadataOnlyScenario ==
  MetadataOnlyScenario =>
    /\ Len(fuseOut) = 1
    /\ fuseOut[1].source = "metadata"
    /\ fuseOut[1].vectorScore = 0
    /\ fuseOut[1].metadataScore >= 96
    /\ fuseOut[1].metadataScore <= One
    /\ fuseOut[1].hostedRerankerScore = NeutralScore
    /\ fuseOut[1].combinedScore =
         (72 * 0 + 36 * NeutralScore + 12 * fuseOut[1].metadataScore) * One

\* the scoring response of a chat or generative provider carries a score
\* array whose length is not the number of documents
WrongLengthArray ==
  /\ pcall.pc = "done"
  /\ Len(pcall.documents) > 0
  /\ pcall.resp.kind = "ok"
  /\ \/ /\ pcall.provider = "openai"
        /\ pcall.resp.content.json = "scores"
        /\ Len(pcall.resp.content.scores) # Len(pcall.documents)
     \/ /\ pcall.provider = "gemini"
        /\ HasArray(pcall.resp.text)
        /\ Len(SplitComma(ArrayBody(pcall.resp.text), << >>)) # Len(pcall.documents)

\* C14: for the chat-completion and the generative provider a response whose
\* score array has the wrong length gives every document the score 0.5, one
\* entry per document, and no exception.
C14_WrongLengthNeutral ==
  WrongLengthArray =>
    /\ ~pcall.result.threw
    /\ Len(pcall.result.value) = Len(pcall.documents)
    /\ \A i \in Indices(pcall.result.value) :
         pcall.result.value[i].rerankerScore = NeutralScore

\* C15: the two source calls of search are both launched before either is
\* awaited, and both have settled before the fusion starts; the fusion is
\* given the vector answer and the metadata answer each in its own place, so
\* the merged candidates, the ranking and the returned list are determined by
\* the two answers (and the reranker's), whichever call settled first.
SearchFused ==
  \/ search.pc \in { "fusing", "enriching" }
  \/ search.pc = "done" /\ ~search.fellBack
FusedOf(vectorAnswer, metadataAnswer, in, outcome) ==
  RankMerged(MergeResults(vectorAnswer, metadataAnswer, in.query),
             RecordedScores(outcome), SearchRerankOptions(in),
             Len(vectorAnswer), Len(metadataAnswer))
InvalidInput(in) == ~in.hasQuery \/ ~in.hasWorkspace
C16_InvalidInputRejected ==
  InvalidInput(search.input) =>
    /\ search.vectorCalls = 0
    /\ search.metadataCalls = 0
    /\ fpc # "awaiting"
    /\ search.pc # "enriching"
    /\ search.pc = "done" => search.out.threw

\* C17: within one search call the vector source's similarity search is
\* invoked at most once and the metadata source's search at most once, on
\* every path, the failing ones included.
C17_NoRetries ==
  /\ search.vectorCalls <= 1
  /\ search.metadataCalls <= 1

\* C18: when the fusion fails with an exception, search returns the vector
\* hits it had already retrieved, in the order of the source and cut to the
\* requested number of results (each as the enrichment leaves it), without
\* the metadata rows and without raising.
RawVectorHits ==
  EnrichAll(SliceTo(search.vector.result.value, search.input.topN),
            search.metadataMap)
C18_FusionFailureFallsBack ==
  (fpc = "failed" /\ search.pc = "done") =>
    /\ ~search.out.threw
    /\ search.out.value = RawVectorHits

\* C19: rerankBatch cuts the documents into consecutive chunks, handles them
\* one after another, and returns every input document exactly once and in
\* the order of the input.
BatchReturned(r) ==
  /\ calls[r].op = "rerankBatch"
  /\ calls[r].pc = "done"
C19_BatchKeepsInputOrder ==
  \A r \in Reqs :
    BatchReturned(r) =>
      /\ ~calls[r].result.threw
      /\ Len(calls[r].result.value) = Len(calls[r].documents)
      /\ \A i \in Indices(calls[r].documents) :
           calls[r].result.value[i].docId = calls[r].documents[i].docId

\* C20: a fusion called without weight overrides combines the scores with
\* the weights semantic 0.6, reranker 0.3, metadata 0.1 and returns at most
\* 10 results, when called directly as when called by search.
StatedDefaults ==
  [ semanticWeight |-> 72, rerankerWeight |-> 36, metadataWeight |-> 12,
    maxResults |-> 10 ]
NoOverrides(opts) == DOMAIN opts \cap DOMAIN StatedDefaults = {}
C20_DefaultWeights ==
  (fpc = "done" /\ NoOverrides(options) /\ ~UseHosted(options)) =>
    /\ Len(fuseOut) <= 10
    /\ fuseOut = RankMerged(documentMap, NoScores, options @@ StatedDefaults,
                            Len(vectorResults), Len(metadataResults))

\* C21: the weighted score of a candidate is multiplied by
\* (1 - diversityFactor) before the diversity pass exactly when its source is
\* metadata and the metadata list is strictly longer than the vector list;
\* no other candidate is multiplied.  Read off the candidates the diversity
\* pass leaves alone (no other merged candidate shares their title or court).
WeightedScore(result) ==
  result.semanticScore * Opt(options, "semanticWeight", DefaultSemanticWeight)
  + result.hostedRerankerScore * Opt(options, "rerankerWeight", DefaultRerankerWeight)
  + result.metadataRelevanceScore * Opt(options, "metadataWeight", DefaultMetadataWeight)
Imbalanced(result) ==
  /\ result.source = "metadata"
  /\ Len(metadataResults) > Len(vectorResults)
StatedScore(result) ==
  Min(IF Imbalanced(result)
      THEN WeightedScore(result)
           * (One - Opt(options, "diversityFactor", DefaultDiversityFactor))
      ELSE WeightedScore(result) * One,
      Full)
SharesTitleOrCourt(a, b) ==
  \/ /\ Len(DiversityTitle(a)) > 0
     /\ Len(DiversityTitle(b)) > 0
     /\ normalizeTitle(DiversityTitle(a)) = normalizeTitle(DiversityTitle(b))
  \/ /\ Len(DiversityCourt(a)) > 0
     /\ DiversityCourt(a) = DiversityCourt(b)
LeftAlone(result) ==
  \A j \in Indices(documentMap) :
    documentMap[j].docId # result.docId => ~SharesTitleOrCourt(result, documentMap[j])
C21_ImbalancePenalty ==
  fpc = "done" =>
    \A i \in Indices(fuseOut) :
      (LeftAlone(fuseOut[i]) /\ StatedScore(fuseOut[i]) >= 0) =>
        fuseOut[i].combinedScore = StatedScore(fuseOut[i])

\* a metadata-only candidate was multiplied and a vector candidate next to it
\* was not, the metadata list being the longer one
C21_Witness ==
  /\ fpc = "done"
  /\ Len(metadataResults) > Len(vectorResults)
  /\ Opt(options, "diversityFactor", DefaultDiversityFactor) > 0
  /\ \E i, j \in Indices(fuseOut) :
       /\ fuseOut[i].source = "metadata"
       /\ LeftAlone(fuseOut[i])
       /\ WeightedScore(fuseOut[i]) > 0
       /\ fuseOut[i].combinedScore < WeightedScore(fuseOut[i]) * One
       /\ fuseOut[j].source = "vector"
       /\ LeftAlone(fuseOut[j])
       /\ WeightedScore(fuseOut[j]) > 0
       /\ fuseOut[j].combinedScore = WeightedScore(fuseOut[j]) * One

\* The candidates in the order the diversity pass visits them, with the
\* scores of Step 5 (read for fusions that returned every merged candidate)
ReturnedAll == fpc = "done" /\ Len(fuseOut) = Len(documentMap)
ReturnedScores ==
  [ d \in { fuseOut[i].docId : i \in Indices(fuseOut) } |->
      (CHOOSE r \in Range(fuseOut) : r.docId = d).hostedRerankerScore ]
BeforeDiversity ==
  SortByCombinedScore(ScoreAll(documentMap, ReturnedScores, options,
                               Len(vectorResults), Len(metadataResults)))
Returned_(docId) == CHOOSE r \in Range(fuseOut) : r.docId = docId
TitleSeen(list, k) ==
  \E j \in 1..(k - 1) :
    /\ Len(DiversityTitle(list[j])) > 0
    /\ Len(DiversityTitle(list[k])) > 0
    /\ normalizeTitle(DiversityTitle(list[j])) = normalizeTitle(DiversityTitle(list[k]))
CourtSeen(list, k) ==
  \E j \in 1..(k - 1) :
    /\ Len(DiversityCourt(list[k])) > 0
    /\ DiversityCourt(list[j]) = DiversityCourt(list[k])
StatedPenalty(list, k) ==
  LET df == Opt(options, "diversityFactor", DefaultDiversityFactor)
  IN (IF TitleSeen(list, k) THEN df * Sq ELSE 0)
     + (IF CourtSeen(list, k) THEN (df * Sq) \div 2 ELSE 0)
DiversityRuns ==
  /\ Opt(options, "diversityFactor", DefaultDiversityFactor) > 0
  /\ Len(documentMap) > 1

\* C22 as stated: in pre-diversity score order the first candidate with a
\* title or court keeps its score, every later candidate loses exactly
\* diversityFactor for a title already seen plus diversityFactor*0.5 for a
\* court already seen, and the list is re-sorted by the result.
C22_DiversityPenalties ==
  ReturnedAll =>
    /\ \A k \in Indices(BeforeDiversity) :
         Returned_(BeforeDiversity[k].docId).combinedScore =
           BeforeDiversity[k].combinedScore - StatedPenalty(BeforeDiversity, k)
    /\ \A i \in 1..(Len(fuseOut) - 1) :
         fuseOut[i].combinedScore >= fuseOut[i + 1].combinedScore

\* C22 amended: the same with the floor of the pass: when diversityFactor > 0
\* and there is more than one candidate, each score becomes
\* max(0, score - penalty); otherwise the scores are untouched.
C22_DiversityPenaltiesFloored ==
  ReturnedAll =>
    /\ \A k \in Indices(BeforeDiversity) :
         Returned_(BeforeDiversity[k].docId).combinedScore =
           IF DiversityRuns
           THEN Max(0, BeforeDiversity[k].combinedScore
                       - StatedPenalty(BeforeDiversity, k))
           ELSE BeforeDiversity[k].combinedScore
    /\ \A i \in 1..(Len(fuseOut) - 1) :
         fuseOut[i].combinedScore >= fuseOut[i + 1].combinedScore

\* three candidates: the second in score order repeated a title and a court,
\* lost both penalties in full, and is returned after the third
C22_Witness ==
  /\ ReturnedAll
  /\ Len(fuseOut) = 3
  /\ DiversityRuns
  /\ TitleSeen(BeforeDiversity, 2)
  /\ CourtSeen(BeforeDiversity, 2)
  /\ ~TitleSeen(BeforeDiversity, 3)
  /\ ~CourtSeen(BeforeDiversity, 3)
  /\ BeforeDiversity[2].combinedScore > StatedPenalty(BeforeDiversity, 2)
  /\ fuseOut[2].docId = BeforeDiversity[3].docId
  /\ fuseOut[3].docId = BeforeDiversity[2].docId
  /\ fuseOut[3].combinedScore < fuseOut[2].combinedScore

\* C23: search reads filters out of the query only when the caller gave
\* none, and calls the metadata source only if some filter of the resulting
\* set is non-empty; when every filter is empty or absent the metadata source
\* is not called and the metadata list given to the fusion is empty.
EmptyFilter(filters, k) ==
  IF k = "year" THEN filters[k] = 0 ELSE filters[k] = NoStr
EveryFilterEmpty(filters) == \A k \in DOMAIN filters : EmptyFilter(filters, k)
FiltersSettled == search.pc \notin { "off", "ready" }
C23_MetadataOnlyWithFilters ==
  FiltersSettled =>
    /\ DOMAIN search.input.filters # {} =>
         search.enhancedFilters = search.input.filters
    /\ EveryFilterEmpty(search.enhancedFilters) =>
         /\ search.metadataCalls = 0
         /\ SearchFused => metadataResults = << >>

\* The rules of each category in the order of the source's lists
CourtRuleMatches(n, q) ==
  CASE n = 1 -> MatchesCI(q, PatSupremeCourt)
    [] n = 2 -> HasHighCourt(q)
    [] n = 3 -> MatchesCI(q, PatDelhiHighCourt)
    [] n = 4 -> MatchesCI(q, PatBombayHighCourt)
    [] n = 5 -> MatchesCI(q, PatCalcuttaHighCourt)
    [] n = 6 -> MatchesCI(q, PatMadrasHighCourt)
CourtRuleValue(n, q) ==
  CASE n = 1 -> StrSupremeCourtOfIndia
    [] n = 2 -> HighCourtMatch(q)
    [] n = 3 -> StrHighCourtOfDelhi
    [] n = 4 -> ValHighCourtOfBombay
    [] n = 5 -> ValHighCourtOfCalcutta
    [] n = 6 -> ValHighCourtOfMadras
CaseTypeRuleMatches(n, q) ==
  CASE n = 1 -> MatchesCI(q, PatCriminalAppeal)
    [] n = 2 -> MatchesCI(q, PatCivilAppeal)
    [] n = 3 -> MatchesCI(q, PatWritPetition)
    [] n = 4 -> MatchesCI(q, PatSpecialLeavePetition) \/ MatchesCI(q, PatSlp)
    [] n = 5 -> (\E i \in 1..Len(q) : PilAt(q, i))
                \/ MatchesCI(q, PatPublicInterestLitigation)
    [] n = 6 -> MatchesCI(q, PatBail)
CaseTypeRuleValue(n, q) ==
  CASE n = 1 -> ValCriminalAppeal
    [] n = 2 -> ValCivilAppeal
    [] n = 3 -> ValWritPetition
    [] n = 4 -> ValSpecialLeavePetition
    [] n = 5 -> ValPil
    [] n = 6 -> StrBailApplication
JurisdictionRuleMatches(n, q) ==
  CASE n = 1 -> MatchesCI(q, PatCriminal)
    [] n = 2 -> MatchesCI(q, PatCivil)
JurisdictionRuleValue(n, q) ==
  CASE n = 1 -> StrCriminal
    [] n = 2 -> ValCivil
BenchRuleMatches(n, q) ==
  CASE n = 1 -> MatchesCI(q, PatConstitutionBench)
    [] n = 2 -> MatchesCI(q, PatDivisionBench)
BenchRuleValue(n, q) ==
  CASE n = 1 -> ValConstitutionBench
    [] n = 2 -> ValDivisionBench

\* the first rule of a list of count rules that matches q, 0 when none does
FirstRule(RuleMatches(_, _), count, q) ==
  IF \E n \in 1..count : RuleMatches(n, q)
  THEN CHOOSE n \in 1..count :
         RuleMatches(n, q) /\ \A m \in 1..(n - 1) : ~RuleMatches(m, q)
  ELSE 0
FirstRuleWins(filters, key, RuleMatches(_, _), RuleValue(_, _), count, q) ==
  LET n == FirstRule(RuleMatches, count, q)
  IN IF n = 0 THEN key \notin DOMAIN filters
     ELSE key \in DOMAIN filters /\ filters[key] = RuleValue(n, q)

Extracted == search.pc = "extracted"

\* C24: extractFiltersFromQuery gives each category (year, court, case type,
\* jurisdiction, bench type) at most one value: the value of the first rule
\* of the category's list that matches the query; a category none of whose
\* rules matches is absent; and a second call on the same query gives the
\* same filters.
C24_FirstRuleWins ==
  Extracted =>
    LET q == search.input.query
        filters == search.enhancedFilters
    IN /\ filters = extractFiltersFromQuery(q)
       /\ IF HasYear(q) THEN "year" \in DOMAIN filters /\ filters.year = YearOf(q)
          ELSE "year" \notin DOMAIN filters
       /\ FirstRuleWins(filters, "court", CourtRuleMatches, CourtRuleValue, 6, q)
       /\ FirstRuleWins(filters, "case_type", CaseTypeRuleMatches, CaseTypeRuleValue, 6, q)
       /\ FirstRuleWins(filters, "jurisdiction", JurisdictionRuleMatches,
                        JurisdictionRuleValue, 2, q)
       /\ FirstRuleWins(filters, "bench_type", BenchRuleMatches, BenchRuleValue, 2, q)

\* a query naming the Delhi High Court before the Supreme Court: two court
\* rules match, the first of the list gave the value, and no case type,
\* year or bench was found
C24_Witness ==
  /\ Extracted
  /\ CourtRuleMatches(3, search.input.query)
  /\ CourtRuleMatches(1, search.input.query)
  /\ FirstMatchCI(search.input.query, PatDelhiHighCourt)
       < FirstMatchCI(search.input.query, PatSupremeCourt)
  /\ search.enhancedFilters.court = StrSupremeCourtOfIndia
  /\ DOMAIN search.enhancedFilters \cap { "year", "case_type", "bench_type" } = {}

\* The substrings of the query that the winning rules matched
LiteralMatches(q, pat) ==
  { << i, Len(pat) >> : i \in { k \in 1..Len(q) : MatchAtCI(q, k, pat) } }
CourtRuleSpans(n, q) ==
  CASE n = 1 -> LiteralMatches(q, PatSupremeCourt)
    [] n = 2 -> { << i, Len(HighCourtMatch(q)) >> :
                    i \in { k \in 1..Len(q) :
                              HighCourtAt(q, k)
                              /\ \A j \in 1..(k - 1) : ~HighCourtAt(q, j) } }
    [] n = 3 -> LiteralMatches(q, PatDelhiHighCourt)
    [] n = 4 -> LiteralMatches(q, PatBombayHighCourt)
    [] n = 5 -> LiteralMatches(q, PatCalcuttaHighCourt)
    [] n = 6 -> LiteralMatches(q, PatMadrasHighCourt)
CaseTypeRuleSpans(n, q) ==
  CASE n = 1 -> LiteralMatches(q, PatCriminalAppeal)
    [] n = 2 -> LiteralMatches(q, PatCivilAppeal)
    [] n = 3 -> LiteralMatches(q, PatWritPetition)
    [] n = 4 -> LiteralMatches(q, PatSpecialLeavePetition)
                \cup LiteralMatches(q, PatSlp)
    [] n = 5 -> { << i, Len(PatPil) >> : i \in { k \in 1..Len(q) : PilAt(q, k) } }
                \cup LiteralMatches(q, PatPublicInterestLitigation)
    [] n = 6 -> LiteralMatches(q, PatBail)
\* the leftmost of the spans, as text
LeftmostText(q, spans) ==
  LET span == CHOOSE sp \in spans : \A other \in spans : sp[1] <= other[1]
  IN SubSeq(q, span[1], span[1] + span[2] - 1)
MatchedYear(q) ==
  IF HasYear(q)
  THEN LET i == CHOOSE k \in 1..Len(q) :
                  YearAt(q, k) /\ \A j \in 1..(k - 1) : ~YearAt(q, j)
       IN SubSeq(q, i, i + 3)
  ELSE NoStr
MatchedCourt(q) ==
  LET n == FirstRule(CourtRuleMatches, 6, q)
  IN IF n = 0 THEN NoStr ELSE LeftmostText(q, CourtRuleSpans(n, q))
MatchedCaseType(q) ==
  LET n == FirstRule(CaseTypeRuleMatches, 6, q)
  IN IF n = 0 THEN NoStr ELSE LeftmostText(q, CaseTypeRuleSpans(n, q))
RemoveText(s, text) == IF Len(text) = 0 THEN s ELSE RemoveFirst(s, text)
\* the query without them, trimmed
StatedResidual(q) ==
  Trim(RemoveText(RemoveText(RemoveText(q, MatchedYear(q)), MatchedCourt(q)),
                  MatchedCaseType(q)))

\* C25: the substrings of the query matched by the winning year, court and
\* case type rules are removed, and the trimmed remainder is the free-text
\* filter exactly when it is longer than 5 characters.
C25_ResidualIsRemainder ==
  Extracted =>
    LET residual == StatedResidual(search.input.query)
    IN IF Len(residual) > MinFulltextLen
       THEN /\ "fulltext" \in DOMAIN search.enhancedFilters
            /\ search.enhancedFilters.fulltext = residual
       ELSE "fulltext" \notin DOMAIN search.enhancedFilters

\* C26: whenever the filters hold a residual free-text filter, the metadata
\* search issued by search is constrained by it: the residual reaches the
\* store under the key the store builds its full-text clause from.
C26_ResidualConstrainsSearch ==
  (search.metadataCalls > 0 /\ "fulltext" \in DOMAIN search.enhancedFilters) =>
    /\ FullTextKey \in StoreConstraints(search.searchParams)
    /\ search.searchParams[FullTextKey] = search.enhancedFilters.fulltext

\* C27: enrichment is best-effort per result.  Every candidate with a docId
\* is looked up whatever the earlier lookups gave; the records found are
\* exactly those of the lookups that returned a row; the search returns the
\* fused candidates in the same order, a candidate without a found record
\* unchanged and a candidate with one changed only in its court, year,
\* citation and case-type display fields and the attached record.
EnrichmentReturned ==
  search.pc = "done" /\ ~search.fellBack /\ Len(search.lookups) > 0
DisplayFields == { "mdCourt", "mdYear", "mdCitation", "mdCaseType" }
OnlyDisplayChanged(before, after, row) ==
  /\ DOMAIN after = DOMAIN before \cup DisplayFields \cup { "legalMetadata" }
  /\ \A k \in DOMAIN before \ DisplayFields : after[k] = before[k]
  /\ after.legalMetadata = row
  /\ after.mdCourt = row.court
  /\ after.mdYear = row.year
  /\ after.mdCitation = row.citation
  /\ after.mdCaseType = row.case_type
C27_EnrichmentBestEffort ==
  EnrichmentReturned =>
    LET ids == DocIdsOf(fuseOut)
        found == search.metadataMap
        after == search.out.value
    IN /\ Len(search.lookups) = Len(ids)
       /\ DOMAIN found = { ids[i] : i \in { j \in 1..Len(ids) : search.lookups[j] = "row" } }
       /\ Len(after) = Len(fuseOut)
       /\ \A i \in 1..Len(fuseOut) :
            IF fuseOut[i].docId \in DOMAIN found
            THEN OnlyDisplayChanged(fuseOut[i], after[i], found[fuseOut[i].docId])
            ELSE after[i] = fuseOut[i]
C27_Witness ==
  /\ EnrichmentReturned
  /\ Len(search.lookups) = 2
  /\ search.lookups[1] = "rejects"
  /\ search.lookups[2] = "row"
  /\ "legalMetadata" \in DOMAIN search.out.value[2]
  /\ "legalMetadata" \notin DOMAIN search.out.value[1]
  /\ search.out.value[2].mdCourt # fuseOut[2].mdCourt

\* C28: within one fusion rerankerService.rerank is awaited at most once,
\* only when useHostedReranker is set and the service has answered that it
\* is available, only after the merge and over the whole merged document
\* map; whatever the call gives, the fusion returns, and when the call
\* fails, or the response holds no score for a document, that document's
\* reranker score is the neutral 0.5.
FusedWith(outcome) ==
  RankMerged(documentMap, RecordedScores(ServiceCatch(documentMap, outcome)),
             options, Len(vectorResults), Len(metadataResults))
AllNeutral(results) ==
  \A i \in 1..Len(results) : results[i].hostedRerankerScore = NeutralScore
PositionOf(docId) == CHOOSE i \in 1..Len(documentMap) : documentMap[i].docId = docId
Unscored(resp, docId) ==
  \A k \in 1..Len(resp.results) : resp.results[k].index # PositionOf(docId) - 1
NeutralWithoutScore ==
  /\ AllNeutral(FusedWith(Thrown))
  /\ \A resp \in Responses(provider, Len(documentMap), FusionVals) :
       LET results == FusedWith(ProviderRerank(provider, documentMap, resp))
       IN /\ Len(results) = Len(FusedWith(Thrown))
          /\ IF resp.kind # "ok" THEN AllNeutral(results)
             ELSE \A i \in 1..Len(results) :
                    Unscored(resp, results[i].docId) =>
                      results[i].hostedRerankerScore = NeutralScore
HostedCallStep ==
  /\ fpc' = "awaiting" =>
       /\ fpc = "ready"
       /\ UseHosted(options)
       /\ lastAvailable' = "yes"
       /\ provider' # "none"
       /\ documentMap' = MergeResults(vectorResults, metadataResults, query)
  /\ fpc = "awaiting" => fpc' = "done"
  /\ fpc \in { "done", "failed" } => fpc' = fpc
  /\ fpc' = "ready" => fpc = "ready"
C28_HostedRerankerOnce ==
  /\ [][HostedCallStep]_vars
  /\ []((fpc = "awaiting" /\ provider # "none") => NeutralWithoutScore)
C28_Witness ==
  /\ fpc = "done"
  /\ lastAvailable = "yes"
  /\ Len(fuseOut) = 2
  /\ fuseOut[1].hostedRerankerScore = NeutralScore
  /\ fuseOut[2].hostedRerankerScore = 150

\* C29: the reranker score a candidate is combined with is the score the
\* provider's response holds for that document, a score of exactly 0
\* included; the neutral 0.5 is used only for a document without a score.
ResponseScore(resp, docId) ==
  resp.results[CHOOSE k \in 1..Len(resp.results) :
                 resp.results[k].index = PositionOf(docId) - 1].relevance_score
C29_ProviderScoreUsed ==
  (fpc = "awaiting" /\ provider # "none") =>
    \A resp \in { r \in Responses(provider, Len(documentMap), FusionVals) : r.kind = "ok" } :
      LET results == FusedWith(ProviderRerank(provider, documentMap, resp))
      IN \A i \in 1..Len(results) :
           IF Unscored(resp, results[i].docId)
           THEN results[i].hostedRerankerScore = NeutralScore
           ELSE results[i].hostedRerankerScore = ResponseScore(resp, results[i].docId)

\* C30: with non-negative weights, a candidate whose id is in the vector
\* list and in the metadata list is returned with a combinedScore at least
\* that of the same fusion without the metadata rows of that id (stated for
\* the fusions that run without the hosted reranker, so that both runs use
\* the same reranker scores).
InVectorList(docId) ==
  \E k \in 1..Len(vectorResults) :
    OrId(vectorResults[k].id, vectorResults[k].docId) = docId
InMetadataList(docId) ==
  \E k \in 1..Len(metadataResults) : metadataResults[k].doc_id = docId
WithoutRowsOf(docId) ==
  SelectSeq(metadataResults, LAMBDA row : row.doc_id # docId)
VectorOnlyRun(docId) ==
  RankMerged(MergeResults(vectorResults, WithoutRowsOf(docId), query), NoScores,
             options, Len(vectorResults), Len(WithoutRowsOf(docId)))
C30_BothSourcesNeverHurt ==
  (fpc = "done" /\ lastAvailable # "yes") =>
    \A i \in 1..Len(fuseOut) :
      (InVectorList(fuseOut[i].docId) /\ InMetadataList(fuseOut[i].docId)) =>
        \A j \in 1..Len(VectorOnlyRun(fuseOut[i].docId)) :
          VectorOnlyRun(fuseOut[i].docId)[j].docId = fuseOut[i].docId =>
            VectorOnlyRun(fuseOut[i].docId)[j].combinedScore <= fuseOut[i].combinedScore

====
